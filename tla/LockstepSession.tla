---------------------------- MODULE LockstepSession ---------------------------
(***************************************************************************)
(* A LAN lockstep session from the lobby to the end of the match: who is   *)
(* in it, and who gives up on whom (net/lockstep_lobby.py and the lobby    *)
(* and timeout half of net/lockstep_runtime.py).                           *)
(*                                                                         *)
(* Time passes in beats of 250 ms, the interval of the keepalives, of the  *)
(* idle heartbeats and of the lobby broadcasts.  A program that is not     *)
(* busy loading polls once per beat: it reads what its socket holds, then  *)
(* looks at its clocks, then sends.  On a link that works a packet is read *)
(* at the next poll.  Reliable messages are resent until they are acked;   *)
(* of the unreliable packets of a beat only the last counts.               *)
(* LockstepMatch has the inputs and frames of the match, ReliableLink the  *)
(* packets.                                                                *)
(***************************************************************************)
EXTENDS Naturals, Sequences, FiniteSets, Functions, SequencesExt

CONSTANTS
    Client,         \* the addresses that may join
    Host,
    PlayerCounts,   \* the sizes a lobby may be opened with
    None,
    LinkPatience,   \* LINK_TIMEOUT_MS, in beats
    LoadPatience,   \* LOADING_LINK_TIMEOUT_MS
    PausePatience,  \* PAUSED_LINK_TIMEOUT_MS
    LoadTime,       \* bound: beats from the start to the open gameplay view
    MaxHurt,        \* bound: clients whose link breaks
    Flaps           \* whether a link comes back once the match is on

ASSUME SessionAssumption ==
    /\ Host \notin Client /\ None \notin 1..3 /\ None \notin {"alive", "empty", "input"}
    /\ PlayerCounts \subseteq 2..4
    /\ {LinkPatience, LoadPatience, PausePatience} \subseteq Nat
    /\ 1 < LinkPatience /\ LinkPatience < LoadPatience /\ LoadPatience < PausePatience
    /\ LoadTime \in Nat /\ LoadTime + 1 < LoadPatience
    /\ Flaps \in BOOLEAN

VARIABLES
    playerCount,    \* player_count of the host's lobby
    hostPhase,  \* "lobby", "started" (the match is, the gameplay view is not),
                \* "loading", "playing", "over"
    peers,      \* host_peers and the lobby's peers_by_addr, by address
    seen,       \* _host_seen_input_slots
    fresh,      \* peers whose input for the next tick the host has
    stalled,    \* paused of HostLockstepState
    idle,       \* beats without progress, up to the stall timeout
    phase,      \* each client's: also "new" and "joining"
    slot,       \* slot_index of its welcome
    pend,       \* reliable messages of each client that are not acked: a set, as
                \* those that arrive arrive together
    sawFrame,   \* _client_seen_tick_frame
    toldPause,  \* client_pause_state: waiting for input
    lines,      \* whether there are log lines to forward
    toClient,   \* reliable messages of the host that each client has yet to read
    word,       \* the unreliable packet on its way from each client
    alive,      \* clients to which an unreliable packet is on its way
    up,         \* clients whose link works
    hostSilence, silence,   \* beats since the host, or the client, heard the other
    moved,      \* programs that have polled in this beat
    load,       \* beats that each loading program has taken
    hurt,       \* history: clients whose link broke
    lost        \* history: clients that timed out, or were, in spite of the host
                \* being there

hostVars == <<playerCount, hostPhase, peers, seen, fresh, stalled, idle>>
clientVars == <<phase, slot, pend, sawFrame, toldPause, lines>>
timeVars == <<hostSilence, silence, moved, load>>
vars == <<hostVars, clientVars, toClient, word, alive, up, timeVars, hurt, lost>>

Program == Client \cup {Host}
Slot == 1..(playerCount - 1)
Known == DOMAIN peers
Phase == {"new", "joining", "lobby", "started", "loading", "playing", "over"}

Hello == <<"hello", 0>>
Ready(s) == <<"ready", s>>
Welcome(s) == <<"welcome", s>>
Note(kind) == <<kind, 0>>
HostMessage ==
    {Welcome(s) : s \in 1..3}
    \cup {Note(k) : k \in {"reject", "state", "start", "pause", "resume", "frame", "disconnect"}}

TypeOK ==
    /\ playerCount \in PlayerCounts
    /\ hostPhase \in Phase \ {"new", "joining"}
    /\ Known \subseteq Client
    /\ \A c \in Known : peers[c] \in [slot : Slot, ready : BOOLEAN, got : 1..2, again : BOOLEAN]
    /\ seen \subseteq Slot /\ fresh \subseteq Client
    /\ stalled \in BOOLEAN /\ idle \in 0..1
    /\ phase \in [Client -> Phase]
    /\ slot \in [Client -> Slot \cup {None}]
    /\ pend \in [Client -> SUBSET ({Hello} \cup {Ready(s) : s \in Slot})]
    /\ {sawFrame, toldPause, lines} \subseteq [Client -> BOOLEAN]
    /\ toClient \in [Client -> Seq(HostMessage)]
    /\ word \in [Client -> {None, "alive", "empty", "input"}]
    /\ alive \subseteq up /\ up \subseteq Client
    /\ {hostSilence, silence} \subseteq [Client -> 0..PausePatience]
    /\ moved \subseteq Program /\ load \in [Program -> 0..LoadTime]
    /\ {hurt, lost} \subseteq SUBSET Client

Init ==
    /\ playerCount \in PlayerCounts
    /\ hostPhase = "lobby" /\ peers = <<>> /\ seen = {} /\ fresh = {}
    /\ stalled = FALSE /\ idle = 0
    /\ phase = [c \in Client |-> "new"]
    /\ slot = [c \in Client |-> None]
    /\ pend = [c \in Client |-> {}]
    /\ sawFrame = [c \in Client |-> FALSE]
    /\ toldPause = [c \in Client |-> FALSE]
    /\ lines = [c \in Client |-> FALSE]
    /\ toClient = [c \in Client |-> <<>>]
    /\ word = [c \in Client |-> None]
    /\ alive = {} /\ up = Client
    /\ hostSilence = [c \in Client |-> 0]
    /\ silence = [c \in Client |-> 0]
    /\ moved = {} /\ load = [p \in Program |-> 0]
    /\ hurt = {} /\ lost = {}

\* Programs that poll in this beat, and have not yet.
On(p) == IF p = Host THEN hostPhase # "over" ELSE phase[p] \notin {"new", "over"}
Loading(p) == IF p = Host THEN hostPhase = "loading" ELSE phase[p] = "loading"
Polls(p) == On(p) /\ ~Loading(p) /\ p \notin moved

MatchPhase == {"started", "loading", "playing"}
InMatch == hostPhase \in MatchPhase

\* Two LobbyStates or frames in a row are one to this model.
Queue(q, m) == IF q # <<>> /\ Last(q) = m THEN q ELSE Append(q, m)
ToAll(queues, cs, m) ==
    [c \in Client |-> IF c \in cs THEN Queue(queues[c], m) ELSE queues[c]]

-----------------------------------------------------------------------------
(* The host reads.                                                         *)

\* The messages of c that the host's link has not had: of an unknown address it
\* takes a Hello only.
Unread(c) ==
    IF c \in Known THEN {m \in pend[c] : peers[c].got = 1 /\ m # Hello}
    ELSE pend[c] \cap {Hello}
Readable(c) == c \in up /\ (Unread(c) # {} \/ (c \in Known /\ word[c] # None))

\* A peer with unacked messages resends them, and so is not silent.
Heard(c) == Readable(c) \/ (c \in up \cap Known /\ pend[c] # {})

\* Mutant of Free: one seat too many.
FreeOneMore == (1..playerCount) \ {peers[c].slot : c \in Known}

\* HostLobby._next_free_slot
Free == Slot \ {peers[c].slot : c \in Known}
Lowest(S) == CHOOSE s \in S : \A t \in S : s <= t

\* process_hello: a stranger is welcomed, with a link of its own that has had
\* this Hello, or turned away; and everybody gets the state of the lobby.
HostReadsHello(c) ==
    /\ Polls(Host) /\ c \notin Known /\ Readable(c)
    /\ IF InMatch \/ Free = {}
       THEN /\ toClient' = ToAll([toClient EXCEPT ![c] = <<Note("reject")>>], Known, Note("state"))
            /\ UNCHANGED peers
       ELSE /\ peers' = [q \in Known \cup {c} |->
                 IF q = c THEN [slot |-> Lowest(Free), ready |-> FALSE, got |-> 1,
                                again |-> slot[c] # None]
                 ELSE peers[q]]
            /\ toClient' = ToAll([toClient EXCEPT ![c] = <<Welcome(Lowest(Free))>>],
                                 Known, Note("state"))
    \* Turned away, it asks again when the answer is lost.
    /\ pend' = [pend EXCEPT ![c] = IF InMatch \/ Free = {} THEN {} ELSE @]
    /\ hostSilence' = [hostSilence EXCEPT ![c] = 0]
    /\ UNCHANGED <<playerCount, hostPhase, seen, fresh, stalled, idle, phase, slot, sawFrame,
                   toldPause, lines, word, alive, up, silence, moved, load, hurt, lost>>

\* Mutant of Accepts: any Ready of a peer will do.
AcceptsAny(c, m) == TRUE

\* process_ready: only for the seat that the sender has.
Accepts(c, m) == m = Ready(peers[c].slot)

\* Ready, an InputBatch with samples or without, or a packet that only shows
\* that its sender is there.
HostReads(c) ==
    /\ Polls(Host) /\ c \in Known /\ Readable(c)
    /\ hostSilence' = [hostSilence EXCEPT ![c] = 0]
    /\ IF Unread(c) # {}
       THEN /\ peers' = [peers EXCEPT ![c].got = 2,
                            ![c].ready = @ \/ \E m \in Unread(c) : Accepts(c, m)]
            /\ toClient' = ToAll(toClient, Known, Note("state"))
       ELSE UNCHANGED <<peers, toClient>>
    /\ seen' = IF InMatch /\ word[c] \in {"empty", "input"}
               THEN seen \cup {peers[c].slot} ELSE seen
    /\ fresh' = IF InMatch /\ word[c] = "input" THEN fresh \cup {c} ELSE fresh
    /\ word' = [word EXCEPT ![c] = None]
    /\ UNCHANGED <<playerCount, hostPhase, stalled, idle, clientVars, alive, up, silence, moved,
                   load, hurt, lost>>

-----------------------------------------------------------------------------
(* The host has read everything, and looks at its clocks.                  *)

HostPatience ==
    IF InMatch /\ stalled THEN PausePatience
    ELSE IF InMatch /\ seen # Slot THEN LoadPatience
    ELSE LinkPatience

Silent == {c \in Known : hostSilence[c] >= HostPatience /\ ~Heard(c)}
Present == Known \ Silent

\* A packet to a broken link arrives when it is resent, if somebody resends it.
Sent(queues) == [c \in Client |-> IF c \in up THEN queues[c] ELSE <<>>]

HostMoves ==
    /\ Polls(Host)
    /\ \A c \in Client : ~Readable(c)
    /\ moved' = moved \cup {Host}
    /\ hostSilence' = [c \in Client |-> IF c \in Present /\ ~Heard(c) THEN hostSilence[c] ELSE 0]
    /\ lost' = lost \cup Silent
    /\ peers' = Restrict(peers, Present)
    /\ UNCHANGED <<playerCount, clientVars, word, up, silence, load, hurt>>

\* all_ready: the players are complete, and each is ready.
AllReady(cs) == Cardinality(cs) >= playerCount - 1 /\ \A c \in cs : peers[c].ready

\* In the lobby a silent peer is forgotten, with what was still to be resent to
\* it; the match starts by itself; until then everybody gets the lobby's state.
HostInLobby ==
    /\ hostPhase = "lobby"
    /\ HostMoves
    /\ hostPhase' = IF AllReady(Present) THEN "started" ELSE "lobby"
    /\ toClient' = ToAll([c \in Client |-> IF c \in Silent \ up THEN <<>> ELSE toClient[c]],
                         Present, Note(IF AllReady(Present) THEN "start" ELSE "state"))
    /\ idle' = 0
    /\ UNCHANGED <<seen, fresh, stalled, alive>>

\* _abort_host_match: once the match is on, a silent peer ends it for all.
\* The mode closes the runtime, which resends nothing.
HostAborts ==
    /\ InMatch /\ Silent # {}
    /\ HostMoves
    /\ hostPhase' = "over"
    /\ toClient' = Sent(ToAll(toClient, Present, Note("disconnect")))
    /\ seen' = {} /\ fresh' = {} /\ stalled' = FALSE /\ idle' = 0
    /\ UNCHANGED alive

\* update_pause_state, pop_ready_frames and the frame that the mode broadcasts:
\* a tick is complete with an input of each player.  The keepalive goes out when
\* the host has sent nothing for a beat, to anyone: resends to one peer may
\* silence it for all.
HostInMatch ==
    /\ InMatch /\ Silent = {}
    /\ HostMoves
    /\ LET ready == hostPhase = "playing" /\ fresh = Known
           resumed == IF stalled THEN ToAll(toClient, Known, Note("resume")) ELSE toClient
           pauses == ~ready /\ ~stalled /\ idle = 1
       IN  /\ toClient' = IF ready THEN ToAll(resumed, Known, Note("frame"))
                          ELSE IF pauses THEN ToAll(toClient, Known, Note("pause"))
                          ELSE toClient
           /\ stalled' = (~ready /\ (stalled \/ pauses))
           /\ idle' = IF ready THEN 0 ELSE idle
           /\ fresh' = IF ready THEN {} ELSE fresh
           /\ \/ alive' = alive \cup (Known \cap up)
              \/ (ready \/ pauses \/ \E c \in Known : toClient[c] # <<>>) /\ UNCHANGED alive
    /\ UNCHANGED <<hostPhase, seen>>

-----------------------------------------------------------------------------
(* A client.                                                               *)

\* LockstepRuntime.open
Open(c) ==
    /\ phase[c] = "new"
    /\ phase' = [phase EXCEPT ![c] = "joining"]
    /\ UNCHANGED <<hostVars, slot, pend, sawFrame, toldPause, lines, toClient, word, alive, up,
                   timeVars, hurt, lost>>

\* The client ends, and what it had on its way with it.
Over(c) ==
    /\ phase' = [phase EXCEPT ![c] = "over"]
    /\ pend' = [pend EXCEPT ![c] = {}]
    /\ toClient' = [toClient EXCEPT ![c] = <<>>]
    /\ alive' = alive \ {c}
    /\ silence' = [silence EXCEPT ![c] = 0]
    /\ sawFrame' = [sawFrame EXCEPT ![c] = FALSE]
    /\ toldPause' = [toldPause EXCEPT ![c] = FALSE]
    /\ lines' = [lines EXCEPT ![c] = FALSE]
    /\ UNCHANGED <<hostVars, slot, word, up, hostSilence, moved, load>>

\* The messages of a second link are numbered from 1 again: the Welcome is taken
\* as a duplicate of the first link's, and later ones may be.
Duplicate(c, kind) ==
    IF kind = "welcome" /\ slot[c] # None THEN {TRUE}
    ELSE IF c \in Known /\ peers[c].again THEN BOOLEAN ELSE {FALSE}

\* A message is a log line, and every packet but those built while the Hello was
\* handled acks what the host has had.
ClientReads(c) ==
    /\ Polls(c) /\ c \in up /\ toClient[c] # <<>>
    /\ \E dup \in Duplicate(c, Head(toClient[c])[1]) :
       LET m == Head(toClient[c])
           kind == IF dup THEN "duplicate" ELSE m[1]
           taken == kind = "welcome"
       IN  IF kind \in {"reject", "disconnect"} THEN Over(c)
           ELSE /\ toClient' = [toClient EXCEPT ![c] = Tail(@)]
                /\ silence' = [silence EXCEPT ![c] = 0]
                /\ lines' = [lines EXCEPT ![c] = TRUE]
                /\ phase' = [phase EXCEPT ![c] = IF taken THEN "lobby"
                               ELSE IF kind = "start" THEN "started" ELSE @]
                /\ slot' = [slot EXCEPT ![c] = IF taken THEN m[2] ELSE @]
                /\ pend' = [pend EXCEPT ![c] =
                     IF taken THEN @ \cup {Ready(m[2])}
                     ELSE IF m[1] # "welcome" /\ c \in Known THEN Unread(c) ELSE @]
                /\ sawFrame' = [sawFrame EXCEPT ![c] = @ \/ kind = "frame"]
                /\ toldPause' = [toldPause EXCEPT ![c] =
                     IF kind = "pause" THEN TRUE ELSE IF kind = "resume" THEN FALSE ELSE @]
                /\ UNCHANGED <<hostVars, word, alive, up, hostSilence, moved, load>>
    /\ UNCHANGED <<hurt, lost>>

ClientHears(c) ==
    /\ Polls(c) /\ c \in alive
    /\ alive' = alive \ {c}
    /\ silence' = [silence EXCEPT ![c] = 0]
    /\ pend' = [pend EXCEPT ![c] = IF c \in Known THEN Unread(c) ELSE @]
    /\ UNCHANGED <<hostVars, phase, slot, sawFrame, toldPause, lines, toClient, word, up,
                   hostSilence, moved, load, hurt, lost>>

Patience(c) ==
    IF phase[c] \in MatchPhase /\ toldPause[c] THEN PausePatience
    ELSE IF phase[c] \in MatchPhase /\ ~sawFrame[c] THEN LoadPatience
    ELSE LinkPatience

\* The client has read everything, and looks at its clock.
Still(c) == Polls(c) /\ (c \in up => toClient[c] = <<>> /\ c \notin alive)

TimesOut(c) ==
    /\ Still(c) /\ silence[c] >= Patience(c)
    /\ Over(c)
    /\ lost' = IF On(Host) /\ slot[c] # None /\ (InMatch => Silent = {})
               THEN lost \cup {c} ELSE lost
    /\ UNCHANGED hurt

\* Mutant of Speech: the lobby is silent.
SpeechWithoutLogs(c) ==
    IF phase[c] = "playing" THEN "input"
    ELSE IF phase[c] = "started" THEN (IF toldPause[c] THEN "empty" ELSE "alive")
    ELSE None

\* The unreliable packet of this beat: forwarded log lines in the lobby,
\* keepalives, or heartbeats when paused, before the view is there, inputs then.
Speech(c) ==
    IF phase[c] = "playing" THEN "input"
    ELSE IF phase[c] = "started" THEN (IF toldPause[c] THEN "empty" ELSE "alive")
    ELSE IF phase[c] = "lobby" /\ lines[c] THEN "alive"
    ELSE None

ClientMoves(c) ==
    /\ Still(c) /\ silence[c] < Patience(c)
    /\ moved' = moved \cup {c}
    /\ pend' = [pend EXCEPT ![c] = IF phase[c] = "joining" /\ @ = {} THEN {Hello} ELSE @]
    /\ word' = [word EXCEPT ![c] = IF c \in up /\ Speech(c) # None THEN Speech(c) ELSE @]
    /\ lines' = [lines EXCEPT ![c] = @ /\ phase[c] = "joining"]
    /\ UNCHANGED <<hostVars, phase, slot, sawFrame, toldPause, toClient, alive, up, hostSilence,
                   silence, load, hurt, lost>>

-----------------------------------------------------------------------------
(* Loading, time and faults.                                               *)

\* The lobby panel has closed and the gameplay view opens, which takes a while.
PhaseOf(p) == IF p = Host THEN hostPhase ELSE phase[p]
SetPhase(p, ph) ==
    IF p = Host THEN hostPhase' = ph /\ UNCHANGED phase
    ELSE phase' = [phase EXCEPT ![p] = ph] /\ UNCHANGED hostPhase

Opening(p) == PhaseOf(p) \in {"started", "loading"}

BeginLoad(p) ==
    /\ PhaseOf(p) = "started" /\ p \in moved
    /\ SetPhase(p, "loading")
    /\ UNCHANGED <<playerCount, peers, seen, fresh, stalled, idle, slot, pend, sawFrame, toldPause,
                   lines, toClient, word, alive, up, timeVars, hurt, lost>>

EnterGameplay(p) ==
    /\ PhaseOf(p) = "loading"
    /\ SetPhase(p, "playing")
    /\ load' = [load EXCEPT ![p] = 0]
    /\ UNCHANGED <<playerCount, peers, seen, fresh, stalled, idle, slot, pend, sawFrame, toldPause,
                   lines, toClient, word, alive, up, hostSilence, silence, moved, hurt, lost>>

Older(n) == IF n < PausePatience THEN n + 1 ELSE n

Beat ==
    /\ \A p \in Program : ~Polls(p)
    /\ \A p \in Program : Opening(p) => load[p] < LoadTime
    /\ moved' = {}
    /\ hostSilence' = [c \in Client |->
           IF c \in Known /\ On(Host) THEN Older(hostSilence[c]) ELSE 0]
    /\ silence' = [c \in Client |-> IF On(c) THEN Older(silence[c]) ELSE 0]
    /\ load' = [p \in Program |-> IF Opening(p) THEN load[p] + 1 ELSE 0]
    /\ idle' = IF InMatch THEN 1 ELSE 0
    /\ UNCHANGED <<playerCount, hostPhase, peers, seen, fresh, stalled, clientVars, toClient, word,
                   alive, up, hurt, lost>>

\* A link breaks, with the packets on it; what is resent comes when it works
\* again.
MayHurt(c) == c \in hurt \/ Cardinality(hurt) < MaxHurt

Break(c) ==
    /\ c \in up /\ On(c) /\ MayHurt(c)
    /\ up' = up \ {c}
    /\ alive' = alive \ {c}
    /\ word' = [word EXCEPT ![c] = None]
    /\ toClient' = [toClient EXCEPT ![c] = IF c \in Known /\ On(Host) THEN @ ELSE <<>>]
    /\ hurt' = hurt \cup {c}
    /\ UNCHANGED <<hostVars, clientVars, timeVars, lost>>

Mend(c) ==
    /\ c \notin up /\ (InMatch => Flaps)
    /\ up' = up \cup {c}
    /\ UNCHANGED <<hostVars, clientVars, toClient, word, alive, timeVars, hurt, lost>>

Next ==
    \/ HostInLobby \/ HostAborts \/ HostInMatch \/ Beat
    \/ \E p \in Program : BeginLoad(p) \/ EnterGameplay(p)
    \/ \E c \in Client :
         HostReadsHello(c) \/ HostReads(c) \/ Open(c) \/ ClientReads(c) \/ ClientHears(c)
         \/ TimesOut(c) \/ ClientMoves(c) \/ Break(c) \/ Mend(c)

Spec == Init /\ [][Next]_vars

-----------------------------------------------------------------------------

\* Nobody whose link and program work is given up: the host does not drop such
\* a client, and such a client does not time out while the host is there, not
\* in the lobby, not while somebody loads, and not while the match waits for a
\* third player who is gone, until the host ends it for all.
HealthyStay == lost \subseteq hurt

\* A match has one player for each seat until it ends: who plays sits where the
\* host sees it, and a lobby that lost or reseated a player does not start.
MatchIsWhole ==
    On(Host) =>
        /\ IsInjective([c \in Known |-> peers[c].slot])
        /\ InMatch => {peers[c].slot : c \in Known} = Slot
        /\ InMatch => \A c \in Known : On(c) => slot[c] = peers[c].slot
        /\ \A c \in Client : phase[c] \in MatchPhase => InMatch /\ c \in Known
===============================================================================
