----------------------------- MODULE ResyncStream -----------------------------
(***************************************************************************)
(* The resync streams of a rollback match over the relay, message by       *)
(* message, while links break and come back.                               *)
(*                                                                         *)
(* A guest that has fallen out of its window asks the host for a snapshot  *)
(* (net/rollback_runtime.py); the host cuts its newest one into chunks     *)
(* (net/rollback_resync_v5.py) and the relay forwards the stream to every  *)
(* connected peer (net/relay_service.py).  A guest assembles the stream    *)
(* of the request it waits for, or any stream when it waits for none, and  *)
(* the gameplay mode applies the result in its next frame.                 *)
(*                                                                         *)
(* A peer that loses its link starts over with a new one: what the old     *)
(* link still carried is lost, so a guest may see the head of a stream, or *)
(* its tail.  Meanwhile the others wait for it.  RelayRoom has the         *)
(* details of the rejoin, RollbackMatch what a resync does to the inputs.  *)
(***************************************************************************)
EXTENDS Naturals, Sequences, Functions, SequencesExt

CONSTANTS
    Guest,          \* the peers other than the host
    Host,
    Chunks,         \* chunks of a stream (total_chunks)
    None,
    Ended,          \* a guest whose runtime has an error
    MaxSnapshots,   \* bound: snapshots the host stores
    MaxRequests,    \* bound: resync requests
    MaxCuts         \* bound: links that break

ASSUME StreamAssumption ==
    /\ Host \notin Guest
    /\ Chunks \in Nat \ {0}
    /\ {MaxSnapshots, MaxRequests, MaxCuts} \subseteq Nat

VARIABLES
    latest,     \* _latest_snapshot_any of the host: the number of it, 0: none
    toHost,     \* requests on their way from each guest to the host
    toRelay,    \* what the host has sent and the relay has not forwarded
    down,       \* what each guest's link with the relay carries
    seated,     \* peers whose seat the relay has connected
    guest,      \* each guest's runtime
    requests,   \* requests sent so far: the source of request ids
    cuts,
    applied,    \* history: the snapshot each guest applied last
    unanswered  \* history: requests that reached a host without a snapshot, or
                \* the relay when the host had no seat

links == <<toHost, toRelay, down, seated>>
vars == <<latest, links, guest, requests, cuts, applied, unanswered>>

Peer == Guest \cup {Host}
Request == 1..MaxRequests
Snapshot == 1..MaxSnapshots
Index == 1..Chunks

Begin(id, v) == [kind |-> "begin", id |-> id, snapshot |-> v, index |-> 0]
Chunk(id, v, i) == [kind |-> "chunk", id |-> id, snapshot |-> v, index |-> i]
Commit(id, v) == [kind |-> "commit", id |-> id, snapshot |-> v, index |-> 0]
Left == [kind |-> "left", id |-> 0, snapshot |-> 0, index |-> 0]    \* PeerDisconnect
State == [kind |-> "state", id |-> 0, snapshot |-> 0, index |-> 0]  \* RoomState
StreamMessage ==
    {Begin(id, v) : id \in Request, v \in Snapshot}
    \cup {Chunk(id, v, i) : id \in Request, v \in Snapshot, i \in Index}
    \cup {Commit(id, v) : id \in Request, v \in Snapshot}
Message == StreamMessage \cup {Left, State}

\* _resync_assembler: a snapshot for each chunk that has come, 0 for the others.
Assembler == [id : Request, snapshot : Snapshot, got : [Index -> Snapshot \cup {0}]]
ASSUME NoneAssumption == None \notin Assembler

\* active: _active_resync_request_id; pending: _pending_resync_snapshot, the
\* snapshot of each chunk; paused: _paused_for_reconnect; waiting: whether
\* _reconnect_state is waiting_for_peer_reconnect; deadline: whether
\* _reconnect_deadline_ms is set.
Runtime ==
    [active : Request \cup {None}, assembler : Assembler \cup {None},
     pending : [Index -> Snapshot \cup {0}] \cup {None},
     paused : BOOLEAN, waiting : BOOLEAN, deadline : BOOLEAN]
Playing == [active |-> None, assembler |-> None, pending |-> None,
            paused |-> FALSE, waiting |-> FALSE, deadline |-> FALSE]

TypeOK ==
    /\ latest \in 0..MaxSnapshots
    /\ toHost \in [Guest -> Seq(Request)]
    /\ toRelay \in Seq(StreamMessage)
    /\ down \in [Guest -> Seq(Message)]
    /\ seated \subseteq Peer
    /\ guest \in [Guest -> Runtime \cup {Ended}]
    /\ requests \in 0..MaxRequests /\ cuts \in 0..MaxCuts
    /\ applied \in [Guest -> Snapshot \cup {0}]
    /\ unanswered \subseteq Request

Init ==
    /\ latest = 0
    /\ toHost = [g \in Guest |-> <<>>]
    /\ toRelay = <<>>
    /\ down = [g \in Guest |-> <<>>]
    /\ seated = Peer
    /\ guest = [g \in Guest |-> Playing]
    /\ requests = 0 /\ cuts = 0
    /\ applied = [g \in Guest |-> 0]
    /\ unanswered = {}

On(g) == guest[g] # Ended

-----------------------------------------------------------------------------
(* The host and the relay.                                                 *)

\* store_local_snapshot
Store ==
    /\ latest < MaxSnapshots
    /\ latest' = latest + 1
    /\ UNCHANGED <<links, guest, requests, cuts, applied, unanswered>>

\* Mutant of Stream: the chunks are counted from zero.
StreamFromZero(id, v) ==
    <<Begin(id, v)>> \o [i \in Index |-> Chunk(id, v, i - 1)] \o <<Commit(id, v)>>

\* build_rb_resync_messages
Stream(id, v) ==
    <<Begin(id, v)>> \o [i \in Index |-> Chunk(id, v, i)] \o <<Commit(id, v)>>

\* _handle_resync_request.  A host without a snapshot says so to the relay,
\* which has no use for it: nobody is told.
HandleRequest(g) ==
    /\ toHost[g] # <<>>
    /\ toHost' = [toHost EXCEPT ![g] = Tail(@)]
    /\ LET id == Head(toHost[g])
       IN  IF latest = 0
           THEN unanswered' = unanswered \cup {id} /\ UNCHANGED toRelay
           ELSE toRelay' = toRelay \o Stream(id, latest) /\ UNCHANGED unanswered
    /\ UNCHANGED <<latest, down, seated, guest, requests, cuts, applied>>

\* _forward_room_message: to every connected peer of the room but the sender.
\* (A guest with an error reads nothing more: what it would get is left out.)
Forward ==
    /\ toRelay # <<>>
    /\ toRelay' = Tail(toRelay)
    /\ down' = [g \in Guest |-> IF g \in seated /\ On(g)
                                THEN Append(down[g], Head(toRelay)) ELSE down[g]]
    /\ UNCHANGED <<latest, toHost, seated, guest, requests, cuts, applied, unanswered>>

-----------------------------------------------------------------------------
(* A guest.                                                                *)

\* _send_resync_request: a late correction, at any time, also during a wait.
\* The relay drops what is for a host that has no seat.
AskForResync(g) ==
    /\ On(g) /\ g \in seated
    /\ requests < MaxRequests
    /\ requests' = requests + 1
    /\ guest' = [guest EXCEPT ![g].active = requests + 1, ![g].paused = TRUE]
    /\ IF Host \in seated
       THEN toHost' = [toHost EXCEPT ![g] = Append(@, requests + 1)] /\ UNCHANGED unanswered
       ELSE unanswered' = unanswered \cup {requests + 1} /\ UNCHANGED toHost
    /\ UNCHANGED <<latest, toRelay, down, seated, cuts, applied>>

\* The next message of g's link.
Take(g, kind) ==
    /\ On(g) /\ down[g] # <<>> /\ Head(down[g]).kind = kind
    /\ down' = [down EXCEPT ![g] = Tail(@)]
    /\ UNCHANGED <<latest, toHost, toRelay, seated, requests, cuts, applied, unanswered>>

\* runtime.error: the mode closes the runtime.
Fail(g) ==
    /\ guest' = [guest EXCEPT ![g] = Ended]
    /\ down' = [down EXCEPT ![g] = <<>>]
    /\ UNCHANGED <<latest, toHost, toRelay, seated, requests, cuts, applied, unanswered>>

\* Mutant of Wanted: a guest that waits ignores every stream.
WantedUnasked(g, m) == guest[g].active = None

\* _handle_resync_begin: a guest that waits for another stream ignores this one.
Wanted(g, m) == guest[g].active \in {None, m.id}

RecvBegin(g) ==
    /\ Take(g, "begin")
    /\ LET m == Head(down[g])
       IN  guest' =
             IF Wanted(g, m)
             THEN [guest EXCEPT
                     ![g].assembler = [id |-> m.id, snapshot |-> m.snapshot,
                                       got |-> [i \in Index |-> 0]],
                     ![g].active = m.id,
                     ![g].paused = TRUE]
             ELSE guest

\* Mutant of Assembles: a chunk of any stream will do.
AssemblesAny(g, m) == guest[g].assembler # None

\* Does g assemble the stream of m?
Assembles(g, m) == guest[g].assembler # None /\ guest[g].assembler.id = m.id

\* _handle_resync_chunk
RecvChunk(g) ==
    /\ Take(g, "chunk")
    /\ LET m == Head(down[g])
       IN  guest' = IF Assembles(g, m)
                    THEN [guest EXCEPT ![g].assembler.got[m.index] = m.snapshot]
                    ELSE guest

\* Mutant of Complete: the chunks are not counted.
CompleteAnyway(a) == TRUE

Complete(a) == \A i \in Index : a.got[i] # 0

\* _handle_resync_commit: finalize, or the session is over for this guest.
RecvCommit(g) ==
    LET m == Head(down[g])
        got == guest[g].assembler
    IN  \/ /\ Take(g, "commit")
           /\ guest' =
                IF Assembles(g, m)
                THEN [guest EXCEPT ![g].assembler = None, ![g].pending = got.got,
                                   ![g].paused = TRUE, ![g].deadline = TRUE]
                ELSE guest
           /\ Assembles(g, m) => Complete(got)
        \/ /\ On(g) /\ down[g] # <<>> /\ m.kind = "commit"
           /\ Assembles(g, m) /\ ~Complete(got)
           /\ Fail(g)

\* _consume_net_runtime_recovery and mark_resync_applied, in a gameplay frame.
Apply(g) ==
    /\ On(g)
    /\ guest[g].pending # None
    /\ applied' = [applied EXCEPT ![g] = guest[g].pending[1]]
    /\ guest' = [guest EXCEPT ![g].pending = None, ![g].active = None,
                              ![g].paused = FALSE, ![g].waiting = FALSE]
    /\ UNCHANGED <<latest, links, requests, cuts, unanswered>>

\* update() after the deadline, which the applied snapshot does not clear.
DeadlineExpires(g) == On(g) /\ guest[g].deadline /\ Fail(g)

\* PeerDisconnect
RecvLeft(g) ==
    /\ Take(g, "left")
    /\ guest' = [guest EXCEPT ![g].paused = TRUE, ![g].waiting = TRUE, ![g].deadline = TRUE]

\* RoomState: _finish_reconnect, whatever else the pause was for.
RecvState(g) ==
    /\ Take(g, "state")
    /\ guest' = IF guest[g].waiting
                THEN [guest EXCEPT ![g].paused = FALSE, ![g].waiting = FALSE,
                                   ![g].deadline = FALSE]
                ELSE guest

-----------------------------------------------------------------------------
(* Links that break: the relay prunes the silent peer, which starts over.  *)

\* The guests that still hear of p's comings and goings, and what they are told.
Others(p) == {g \in seated \ {p, Host} : On(g)}
Told(p, news) == [g \in Guest |-> IF g \in Others(p) THEN down[g] \o news ELSE down[g]]

\* What the links of the guest carried is lost, and the others are told: the
\* new state of the room, and that a peer has left.
CutGuest(g) ==
    /\ g \in seated /\ On(g) /\ cuts < MaxCuts
    /\ cuts' = cuts + 1
    /\ seated' = seated \ {g}
    /\ toHost' = [toHost EXCEPT ![g] = <<>>]
    /\ down' = [Told(g, <<State, Left>>) EXCEPT ![g] = <<>>]
    /\ guest' = [guest EXCEPT ![g].paused = TRUE, ![g].waiting = FALSE, ![g].deadline = TRUE]
    /\ UNCHANGED <<latest, toRelay, requests, applied, unanswered>>

CutHost ==
    /\ Host \in seated /\ cuts < MaxCuts
    /\ cuts' = cuts + 1
    /\ seated' = seated \ {Host}
    /\ toRelay' = <<>>
    /\ toHost' = [g \in Guest |-> <<>>]
    /\ down' = Told(Host, <<State, Left>>)
    /\ UNCHANGED <<latest, guest, requests, applied, unanswered>>

\* A guest with an error is silent too, and does not come back.
Prune(g) ==
    /\ g \in seated /\ ~On(g)
    /\ seated' = seated \ {g}
    /\ toHost' = [toHost EXCEPT ![g] = <<>>]
    /\ down' = Told(g, <<State, Left>>)
    /\ UNCHANGED <<latest, toRelay, guest, requests, cuts, applied, unanswered>>

\* The peer rejoins with its token: RoomState goes to everyone, RoomStart to
\* itself.
Rejoin(p) ==
    /\ p \notin seated
    /\ p \in Guest => On(p)
    /\ seated' = seated \cup {p}
    /\ down' = Told(p, <<State>>)
    /\ guest' = IF p = Host THEN guest
                ELSE [guest EXCEPT ![p].paused = FALSE, ![p].waiting = FALSE,
                                   ![p].deadline = FALSE]
    /\ UNCHANGED <<latest, toHost, toRelay, requests, cuts, applied, unanswered>>

-----------------------------------------------------------------------------
Receive(g) ==
    RecvBegin(g) \/ RecvChunk(g) \/ RecvCommit(g) \/ RecvLeft(g) \/ RecvState(g)

Next ==
    \/ Store \/ Forward \/ CutHost
    \/ \E g \in Guest :
         HandleRequest(g) \/ AskForResync(g) \/ Receive(g) \/ Apply(g)
         \/ DeadlineExpires(g) \/ CutGuest(g) \/ Prune(g)
    \/ \E p \in Peer : Rejoin(p)

Spec == Init /\ [][Next]_vars

-----------------------------------------------------------------------------

\* What a guest is about to apply is one snapshot of the host, all of it,
\* whatever streams and ends of streams have reached the guest.
WholeSnapshots ==
    \A g \in Guest : On(g) /\ guest[g].pending # None =>
        \E v \in 1..latest : guest[g].pending = [i \in Index |-> v]

\* The resynchronisation implements its abstract specification: states are
\* replaced by the host's snapshots, and never by an older one.
Copies == INSTANCE SnapshotCopies WITH copy <- applied
CopySpec == Copies!Spec

\* The messages of request id that g has yet to see.
Coming(g, kind, id) ==
    \E m \in ToSet(down[g] \o toRelay) : m.kind = kind /\ m.id = id

\* Nobody is paused for ever: what ends the pause is on its way.  A guest
\* without a seat rejoins, a deadline expires, a pending snapshot is applied, a
\* departure sets a deadline, and a request is answered by a stream that the
\* guest will take to its end.  The exceptions are the requests that the code
\* drops: a host without a snapshot does, and the relay in a host's absence.
PauseHasEnd ==
    \A g \in Guest : On(g) /\ guest[g].paused =>
        LET id == guest[g].active
        IN  \/ g \notin seated \/ guest[g].deadline \/ guest[g].pending # None
            \/ Left \in ToSet(down[g])
            \/ id \in unanswered
            \/ id \in ToSet(toHost[g])
            \/ /\ Coming(g, "commit", id)
               /\ Coming(g, "begin", id) \/ Assembles(g, [id |-> id])

\* "The runtime requests host resync and pauses": a guest that waits for a
\* stream does not play on with the state it wants replaced.
WaitsForStream == \A g \in Guest : On(g) /\ guest[g].active # None => guest[g].paused
===============================================================================
