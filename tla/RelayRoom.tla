------------------------------- MODULE RelayRoom -------------------------------
(***************************************************************************)
(* The room of one match on the relay (src/crimson/net/relay_service.py)   *)
(* and the way the runtimes of its players come into it, leave it and      *)
(* return to it (src/crimson/net/rollback_runtime.py).                     *)
(*                                                                         *)
(* The relay registers a *peer* for every address that says hello, gives   *)
(* it a seat (a slot) of the room, and prunes it when it has been silent;  *)
(* it knows nothing of the player behind it.  A player who hears nothing   *)
(* from the relay starts over with a new link, says hello again, is a new  *)
(* peer, and claims its seat with a token.  Both sides decide by timeouts  *)
(* of their own, so a peer and its successor may exist together.           *)
(*                                                                         *)
(* Reliable messages of a link are one FIFO in each direction, as proved   *)
(* of the same algorithm in ReliableLinkProofs.  Gameplay messages are in  *)
(* RollbackMatch, a resync that pauses the match as well.                  *)
(***************************************************************************)
EXTENDS Integers, Sequences, FiniteSets

CONSTANTS
  Host, Guest,   \* the runtimes: the host creates the room, the guests know its code
  PlayerCount,   \* player_count of the room
  MaxPeers,      \* bound: peers registered at a time
  MaxMishaps,    \* bound: times a player loses its network, or its address changes
  None

ASSUME RelayAssumption ==
  /\ Host \notin Guest /\ PlayerCount \in 1..4 /\ MaxPeers \in Nat \ {0}
  /\ MaxMishaps \in Nat

Player == {Host} \cup Guest
Slot == 0..(PlayerCount - 1)
Peer == 1..MaxPeers

\* A peer: the player behind it, its slot_index, and what its address and link
\* are worth: "live", "stale" (the player has started over with a new link from
\* that address) or "gone" (the player sends from another address).
PeerRecord == [client : Player, link : {"live", "stale", "gone"}, slot : Slot \cup {None}]

ASSUME RelayNoneAssumption == None \notin Slot /\ None \notin Peer /\ None \notin PeerRecord

VARIABLES
  \* The runtimes.  `slot' is the seat of the RoomStart last received: with it
  \* come `started' and the reconnect token, which stands for the seat (a seat
  \* has one token for the life of the room).  A runtime is paused, and has a
  \* reconnect deadline, exactly while its _reconnect_state is not idle.
  \* `failed': it has an error, whose reason the user reads and nobody acts on.
  runtime,
  peer,          \* _peers_by_id
  room,          \* "none", "lobby", "started" or "evicted"
  seat, ready,   \* peer_id and ready of the room's slots
  up, down,      \* messages from a player to its live peer, and from a peer's link
  online,        \* the player's network is up
  mishaps,       \* times a network was lost or an address changed
  tookOver       \* history: a token claimed a seat that another peer held

vars == <<runtime, peer, room, seat, ready, up, down, online, mishaps, tookOver>>
relay == <<peer, room, seat, ready, tookOver>>
network == <<online, mishaps>>

MinOf(S) == CHOOSE m \in S : \A n \in S : m <= n

Fresh == [accepted |-> FALSE, joined |-> FALSE, sentReady |-> FALSE,
          state |-> "idle", slot |-> None, failed |-> FALSE]

Init ==
  /\ runtime = [c \in Player |-> Fresh]
  /\ peer = [p \in Peer |-> None]
  /\ room = "none"
  /\ seat = [s \in Slot |-> None]
  /\ ready = [s \in Slot |-> FALSE]
  /\ up = [c \in Player |-> << >>]
  /\ down = [p \in Peer |-> << >>]
  /\ online = [c \in Player |-> TRUE]
  /\ mishaps = 0
  /\ tookOver = FALSE

-----------------------------------------------------------------------------
Open == room \in {"lobby", "started"}
Registered == {p \in Peer : peer[p] # None}
PeersOf(c) == {p \in Registered : peer[p].client = c}
Live(p) == p \in Registered /\ peer[p].link = "live"
LiveOf(c) == {p \in PeersOf(c) : Live(p)}
Running(c) == ~runtime[c].failed

\* build_packet and the resends: what is sent on a dead link, or to a runtime
\* that has failed, reaches nobody.
Heard(p) == Live(p) /\ Running(peer[p].client)
Sent(queues, to, msg) ==
  [p \in Peer |-> IF p \in to /\ Heard(p) THEN Append(queues[p], msg) ELSE queues[p]]
SentUp(c, msg) == up' = IF LiveOf(c) = {} THEN up ELSE [up EXCEPT ![c] = Append(@, msg)]

Seated(seats) == {p \in Peer : \E s \in Slot : seats[s] = p}

\* _broadcast_room_state; a seat is "connected" while it names a peer.
StateOf(seats) == [kind |-> "state", taken |-> {s \in Slot : seats[s] # None}]
BroadcastState(queues, seats) == Sent(queues, Seated(seats), StateOf(seats))

-----------------------------------------------------------------------------
(***************************************************************************)
(* The network of a player.                                                *)
(***************************************************************************)
GoOffline(c) ==
  /\ Running(c) /\ online[c] /\ mishaps < MaxMishaps
  /\ online' = [online EXCEPT ![c] = FALSE]
  /\ mishaps' = mishaps + 1
  /\ UNCHANGED <<runtime, relay, up, down>>

GoOnline(c) ==
  /\ Running(c) /\ ~online[c]
  /\ online' = [online EXCEPT ![c] = TRUE]
  /\ UNCHANGED <<runtime, relay, up, down, mishaps>>

\* c's peers with their links as given, and the messages on dead links lost
Relinked(c, link) ==
  /\ peer' = [p \in Peer |-> IF p \in PeersOf(c) /\ peer[p].link # "gone"
                             THEN [peer[p] EXCEPT !.link = link] ELSE peer[p]]
  /\ up' = [up EXCEPT ![c] = << >>]
  /\ down' = [p \in Peer |-> IF p \in PeersOf(c) THEN << >> ELSE down[p]]

\* The relay sees packets of an address it does not know, and drops them.
Rebind(c) ==
  /\ Running(c) /\ mishaps < MaxMishaps
  /\ PeersOf(c) # {}
  /\ mishaps' = mishaps + 1
  /\ Relinked(c, "gone")
  /\ UNCHANGED <<runtime, room, seat, ready, online, tookOver>>

-----------------------------------------------------------------------------
(***************************************************************************)
(* The runtime of a player.                                                *)
(***************************************************************************)

\* `error' is set: the runtime reads, sends and does nothing any more.
Fails(c) ==
  /\ runtime' = [runtime EXCEPT ![c] = [Fresh EXCEPT !.failed = TRUE, !.slot = runtime[c].slot]]
  /\ down' = [p \in Peer |-> IF p \in PeersOf(c) THEN << >> ELSE down[p]]

\* update(): a player in the lobby is ready at once.
SendReady(c) ==
  /\ Running(c)
  /\ runtime[c].accepted /\ runtime[c].joined /\ runtime[c].slot = None /\ ~runtime[c].sentReady
  /\ runtime' = [runtime EXCEPT ![c].sentReady = TRUE]
  /\ SentUp(c, [kind |-> "ready"])
  /\ UNCHANGED <<relay, down, network>>

\* The next reliable message of c's link.
Receives(c, p, kind) ==
  /\ Running(c) /\ online[c]
  /\ p \in LiveOf(c)
  /\ down[p] # << >> /\ Head(down[p]).kind = kind
  /\ UNCHANGED <<relay, network>>

Consumed(p) == down' = [down EXCEPT ![p] = Tail(@)]

\* ClientWelcome, and what _send_hello_if_needed sends in the update after it:
\* before that nothing else can reach the player on this link.
RecvWelcome(c, p) ==
  /\ Receives(c, p, "welcome")
  /\ Consumed(p)
  /\ runtime' = [runtime EXCEPT ![c].accepted = TRUE]
  /\ SentUp(c, CASE runtime[c].state = "self" -> [kind |-> "join", token |-> runtime[c].slot]
                 [] runtime[c].state # "self" /\ c = Host -> [kind |-> "create"]
                 [] OTHER -> [kind |-> "join", token |-> None])

RecvError(c, p) ==
  /\ Receives(c, p, "error")
  /\ Fails(c)
  /\ UNCHANGED up

\* Mutant of RecvRoomState: a room state ends the player's own reconnection only.
RecvRoomStateKeepsWaiting(c, p) ==
  /\ Receives(c, p, "state")
  /\ Consumed(p)
  /\ runtime' = [runtime EXCEPT ![c].joined = TRUE,
       ![c].state = IF @ = "self" THEN "idle" ELSE @]
  /\ UNCHANGED up

\* A room state with the player's own seat taken ends its reconnection.
RecvRoomState(c, p) ==
  /\ Receives(c, p, "state")
  /\ Consumed(p)
  /\ runtime' = [runtime EXCEPT ![c].joined = TRUE,
       ![c].state = IF runtime[c].slot \in Head(down[p]).taken THEN "idle" ELSE @]
  /\ UNCHANGED up

RecvRoomStart(c, p) ==
  /\ Receives(c, p, "start")
  /\ Consumed(p)
  /\ runtime' = [runtime EXCEPT ![c].slot = Head(down[p]).slot, ![c].state = "idle",
                                ![c].sentReady = TRUE]
  /\ UNCHANGED up

\* Before the match a departure ends the session, later it pauses it.
RecvPeerDisconnect(c, p) ==
  /\ Receives(c, p, "disconnect")
  /\ IF runtime[c].slot = None THEN Fails(c)
     ELSE Consumed(p) /\ runtime' = [runtime EXCEPT ![c].state = "waiting"]
  /\ UNCHANGED up

\* Silence of LINK_TIMEOUT_MS: a player of a started match starts over with a new
\* link, another one gives up.  (One that does so already changes nothing.)
Timeout(c) ==
  /\ Running(c)
  /\ ~online[c] \/ (runtime[c].accepted /\ LiveOf(c) = {})
  /\ runtime[c].state # "self"
  /\ IF runtime[c].slot = None
       THEN Fails(c) /\ UNCHANGED <<peer, up>>
       ELSE /\ runtime' = [runtime EXCEPT ![c] = [Fresh EXCEPT !.state = "self", !.slot = runtime[c].slot]]
            /\ Relinked(c, "stale")
  /\ UNCHANGED <<room, seat, ready, network, tookOver>>

\* update() after _reconnect_deadline_ms
DeadlineExpires(c) ==
  /\ Running(c)
  /\ runtime[c].state # "idle"
  /\ Fails(c)
  /\ UNCHANGED <<relay, up, network>>

-----------------------------------------------------------------------------
(***************************************************************************)
(* The relay.                                                              *)
(***************************************************************************)

\* A hello from an address that is not registered; from one that is, it is a
\* duplicate or an unhandled message of the old link.  A guest says hello when
\* it has been told the room code.
HandleHello(c) ==
  /\ Running(c) /\ online[c] /\ ~runtime[c].accepted
  /\ c = Host \/ room # "none"
  /\ \A p \in PeersOf(c) : peer[p].link = "gone"
  /\ Registered # Peer
  /\ LET p == MinOf(Peer \ Registered)
     IN /\ peer' = [peer EXCEPT ![p] = [client |-> c, link |-> "live", slot |-> None]]
        /\ down' = [down EXCEPT ![p] = <<[kind |-> "welcome"]>>]
  /\ UNCHANGED <<runtime, room, seat, ready, up, network, tookOver>>

\* The relay takes the next message of peer p's link.
Takes(c, p, kind) ==
  /\ online[c] /\ p \in LiveOf(c)
  /\ up[c] # << >> /\ Head(up[c]).kind = kind
  /\ up' = [up EXCEPT ![c] = Tail(@)]
  /\ UNCHANGED <<runtime, network>>

\* RelayError
Refuse(p) ==
  /\ down' = Sent(down, {p}, [kind |-> "error"])
  /\ UNCHANGED relay

\* _handle_room_create: the one room of this module, so its code is free.
HandleCreate(c, p) ==
  /\ Takes(c, p, "create")
  /\ room = "none"
  /\ room' = "lobby"
  /\ seat' = [seat EXCEPT ![0] = p]
  /\ ready' = [ready EXCEPT ![0] = TRUE]
  /\ peer' = [peer EXCEPT ![p].slot = 0]
  /\ down' = BroadcastState(down, seat')
  /\ UNCHANGED tookOver

\* Mutant of FreeSlots: one seat more than the room has.
FreeSlotsAndOne == {s \in Slot : seat[s] = None} \cup {PlayerCount}

\* _next_free_slot takes the first of these.
FreeSlots == {s \in Slot : seat[s] = None}

StartOf(slot) == [kind |-> "start", slot |-> slot]

\* Mutant of StartAfterJoin: the start is only sent when the last player is ready.
StartNotRepeated(queues, p, slot) == queues

\* A player who joins a started room is sent the start at once.
StartAfterJoin(queues, p, slot) ==
  IF room = "started" THEN Sent(queues, {p}, StartOf(slot)) ELSE queues

\* Mutant of SeatFor: the token is not looked at.
SeatForAnyone(token) == IF FreeSlots = {} THEN None ELSE MinOf(FreeSlots)

\* The seat a join is for: the token's, else a free one of the room.
SeatFor(token) ==
  IF token # None THEN token ELSE IF FreeSlots = {} THEN None ELSE MinOf(FreeSlots)

\* _handle_room_join.  A held seat counts as left at time 0 of the relay's clock,
\* which is longer ago than the reconnect window: a token always gets its seat
\* ("slot_busy" needs a machine that was booted less than 15 s ago).
HandleJoin(c, p) ==
  LET s == SeatFor(Head(up[c]).token)
  IN /\ Takes(c, p, "join")
     /\ IF peer[p].slot # None \/ ~Open \/ s = None
          THEN Refuse(p)   \* already_in_room, room_not_found, room_full
          ELSE /\ seat' = [seat EXCEPT ![s] = p]
               /\ ready' = [ready EXCEPT ![s] = (room = "started")]
               /\ peer' = [peer EXCEPT ![p].slot = s]
               /\ tookOver' = (tookOver \/ s \notin FreeSlots)
               /\ down' = StartAfterJoin(BroadcastState(down, seat'), p, s)
               /\ UNCHANGED room

\* _broadcast_room_start
BroadcastStart(queues) ==
  [q \in Peer |-> IF q \in Seated(seat) /\ Heard(q)
                  THEN Append(queues[q], StartOf(peer[q].slot)) ELSE queues[q]]

\* _handle_room_ready: the last one starts the match.
HandleReady(c, p) ==
  LET s == peer[p].slot
      starts == room = "lobby" /\ \A t \in Slot : seat[t] # None /\ (t = s \/ ready[t])
  IN /\ Takes(c, p, "ready")
     /\ IF s = None \/ ~Open \/ seat[s] # p
          THEN Refuse(p)   \* not_in_room, slot_owner_mismatch
          ELSE /\ ready' = [ready EXCEPT ![s] = TRUE]
               /\ room' = IF starts THEN "started" ELSE room
               /\ down' = BroadcastState(IF starts THEN BroadcastStart(down) ELSE down, seat)
               /\ UNCHANGED <<peer, seat, tookOver>>

\* Mutant of SeatsWithout: a seat of a started match is kept for its player.
SeatsKept(p) == [s \in Slot |-> IF seat[s] = p /\ room = "lobby" THEN None ELSE seat[s]]

SeatsWithout(p) == [s \in Slot |-> IF seat[s] = p THEN None ELSE seat[s]]

\* _prune_timeouts and _disconnect_peer: the relay has heard nothing from the
\* peer's address for LINK_TIMEOUT_MS.
Prune(p) ==
  /\ p \in Registered
  /\ peer[p].link = "gone" \/ ~online[peer[p].client] \/ ~Running(peer[p].client)
  /\ peer' = [peer EXCEPT ![p] = None]
  /\ up' = IF Live(p) THEN [up EXCEPT ![peer[p].client] = << >>] ELSE up
  /\ IF peer[p].slot = None \/ ~Open
       THEN /\ down' = [down EXCEPT ![p] = << >>]
            /\ UNCHANGED <<room, seat, ready>>
       ELSE /\ seat' = SeatsWithout(p)
            /\ ready' = [s \in Slot |-> ready[s] /\ seat[s] # p]
            /\ down' = [Sent(BroadcastState(down, seat'), Seated(seat'), [kind |-> "disconnect"])
                         EXCEPT ![p] = << >>]
            /\ room' = IF \A s \in Slot : seat'[s] = None THEN "evicted" ELSE room
  /\ UNCHANGED <<runtime, network, tookOver>>

-----------------------------------------------------------------------------
Next ==
  \/ \E c \in Player :
       \/ GoOffline(c) \/ GoOnline(c) \/ Rebind(c)
       \/ SendReady(c) \/ Timeout(c) \/ DeadlineExpires(c)
       \/ HandleHello(c)
       \/ \E p \in Peer :
            \/ RecvWelcome(c, p) \/ RecvError(c, p) \/ RecvRoomState(c, p)
            \/ RecvRoomStart(c, p) \/ RecvPeerDisconnect(c, p)
            \/ HandleCreate(c, p) \/ HandleJoin(c, p) \/ HandleReady(c, p)
  \/ \E p \in Peer : Prune(p)

Spec == Init /\ [][Next]_vars

-----------------------------------------------------------------------------
\* Types of all variables; the queues hold the messages of their direction.
TypeOK ==
  /\ runtime \in [Player -> [accepted : BOOLEAN, joined : BOOLEAN,
                             sentReady : BOOLEAN, state : {"idle", "waiting", "self"},
                             slot : Slot \cup {None}, failed : BOOLEAN]]
  /\ peer \in [Peer -> PeerRecord \cup {None}]
  /\ room \in {"none", "lobby", "started", "evicted"}
  /\ seat \in [Slot -> Peer \cup {None}]
  /\ ready \in [Slot -> BOOLEAN]
  /\ \A c \in Player : \A i \in DOMAIN up[c] : up[c][i].kind \in {"create", "join", "ready"}
  /\ \A p \in Peer : \A i \in DOMAIN down[p] :
       down[p][i].kind \in {"welcome", "state", "start", "disconnect", "error"}
  /\ online \in [Player -> BOOLEAN]

\* The relay's two tables agree: a seat names a registered peer that has this
\* seat, whatever prunes, rejoins and takeovers came before; and unless a token
\* took a seat over, a peer of the open room holds its seat.
SeatsAgree ==
  /\ \A s \in Slot : seat[s] # None => seat[s] \in Registered /\ peer[seat[s]].slot = s
  /\ (Open /\ ~tookOver) => \A p \in Registered : peer[p].slot # None => seat[peer[p].slot] = p

\* A player in its seat who has been told everything
UpToDate(c) ==
  /\ Running(c) /\ runtime[c].slot # None
  /\ \E p \in LiveOf(c) : down[p] = << >> /\ seat[runtime[c].slot] = p

\* Nobody misses the match: a player that has been told everything in a seat of
\* a started room, from the lobby, as a latecomer or after an outage, has started
\* the match in this seat.
StartReaches ==
  \A c \in Player : \A p \in LiveOf(c) : \A s \in Slot :
    (room = "started" /\ seat[s] = p /\ down[p] = << >> /\ Running(c)) => runtime[c].slot = s

\* A pause has a reason: a player that waits and has been told everything waits
\* for a free seat, when no token took over the seat of a peer not yet pruned.
PauseEnds ==
  \A c \in Player :
    (UpToDate(c) /\ runtime[c].state = "waiting" /\ ~tookOver) => FreeSlots # {}

\* A player of a started match gets back the seat it started in, or none.
SeatKept ==
  [][\A c \in Player : runtime[c].slot # None => runtime'[c].slot = runtime[c].slot]_vars
=============================================================================
