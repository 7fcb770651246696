--------------------------- MODULE LockstepMatchProofs ---------------------------
(***************************************************************************)
(* Proofs about LockstepMatch for every number of players, input delay and *)
(* bound: the inputs of a tick are those its players captured for it, and  *)
(* every client replays the host's log.                                    *)
(***************************************************************************)
EXTENDS LockstepMatch, SequenceTheorems, FiniteSetTheorems, TLAPS

-----------------------------------------------------------------------------
(* The invariant.                                                          *)

Ready == [tick : 0..MaxTick, inputs : [Slot -> Input]]
Message == {MatchStart} \cup {TickFrame(f) : f \in AnyFrame} \cup {PauseState(p) : p \in BOOLEAN}

ChannelOK == channel \in [Client -> Seq(Message)]

\* The ticks are emitted, and then simulated, in order.
OrderOK ==
  /\ InputDelay <= nextEmit
  /\ nextEmit = Len(log) + Len(readyTicks)
  /\ \A i \in 1..Len(log) : log[i].tick = i - 1
  /\ \A i \in 1..Len(readyTicks) : readyTicks[i].tick = Len(log) + i - 1
  /\ \A t \in Tick : t < nextEmit => hostInputs[t] = NoInputs

\* Wherever an input is, its player captured it for that tick.
Captured(s, t) == {None} \cup InputOf(s, t)

InputsOK ==
  /\ \A i \in 1..Len(readyTicks) : Authentic(readyTicks[i].tick, readyTicks[i].inputs)
  /\ \A i \in 1..Len(log) : Authentic(log[i].tick, log[i].inputs)
  /\ \A t \in Tick : \A s \in Slot : hostInputs[t][s] \in Captured(s, t)
  /\ \A b \in batches : \A t \in DOMAIN b.samples : b.samples[t] \in InputOf(b.slot, t)
  /\ \A c \in Client : \A t \in Tick : sentInputs[c][t] \in Captured(c, t)

\* What there are inputs for: below the capture clocks, which are not ahead of
\* the ticks that are emitted, or replayed, by more than their lead.
HostClock ==
  /\ hostCapture <= nextEmit + 2 /\ nextEmit <= hostCapture + InputDelay
  /\ \A t \in Tick : hostInputs[t][Host] # None => t < hostCapture + InputDelay

ClientClock(c) ==
  /\ nextConsume[c] <= Len(log)
  /\ capture[c] <= nextConsume[c] + 2 /\ nextEmit <= capture[c] + InputDelay
  /\ \A t \in Tick : hostInputs[t][c] # None => t < capture[c] + InputDelay
  /\ \A b \in batches : b.slot = c => \A t \in DOMAIN b.samples : t < capture[c] + InputDelay
  /\ \A t \in Tick : InputDelay <= t /\ nextConsume[c] <= t /\ t < capture[c] + InputDelay
                     => sentInputs[c][t] # None

\* The frames on their way to a client, and those it has, are the host's.
InLog(f) == (f.tick + 1) \in 1..Len(log) /\ f = log[f.tick + 1]

FramesOK(c) ==
  /\ Len(replayed[c]) = nextConsume[c]
  /\ \A f \in canonical[c] : InLog(f)
  /\ \A i \in 1..Len(channel[c]) : channel[c][i].kind = "frame" => InLog(channel[c][i].frame)

\* The last PauseState on its way, or else the client, has the host's pause.
PauseOK(c) ==
  \/ /\ clientPause[c] = paused
     /\ \A i \in 1..Len(channel[c]) : channel[c][i].kind # "pause"
  \/ \E l \in 1..Len(channel[c]) :
       /\ channel[c][l].kind = "pause" /\ channel[c][l].paused = paused
       /\ \A j \in 1..Len(channel[c]) : channel[c][j].kind = "pause" => j <= l

\* The host's commands: pending, or in one frame of the log.
Carries(f, k) == \E j \in 1..Len(f.commands) : f.commands[j] = k

CommandsOK ==
  /\ \A j \in 1..Len(commands) : commands[j] <= submitted
  /\ \A i, j \in 1..Len(commands) : commands[i] = commands[j] => i = j
  /\ \A i \in 1..Len(log) : \A k : Carries(log[i], k) => k <= submitted
  /\ \A i, j \in 1..Len(log) : \A k : Carries(log[i], k) /\ Carries(log[j], k) => i = j
  /\ \A i \in 1..Len(log) : \A j \in 1..Len(commands) : ~Carries(log[i], commands[j])
  /\ \A k \in 1..submitted : \/ \E j \in 1..Len(commands) : commands[j] = k
                             \/ \E i \in 1..Len(log) : Carries(log[i], k)

IInv ==
  /\ TypeOK /\ ChannelOK
  /\ OrderOK /\ InputsOK /\ HostClock /\ CommandsOK
  /\ \A c \in Client : ClientClock(c) /\ FramesOK(c) /\ PauseOK(c)

-----------------------------------------------------------------------------
(* Numbers, slots and messages.                                            *)

\* What the constants are worth, and the sets of numbers made of them.
LEMMA Numbers ==
  /\ PlayerCount \in Nat \ {0} /\ InputDelay \in Nat /\ MaxTick \in Nat /\ MaxCommands \in Nat
  /\ MaxResend \in Nat /\ MaxHistory \in Nat
  /\ InputDelay + 2 <= MaxResend /\ InputDelay + 2 <= MaxHistory /\ InputDelay <= MaxTick + 1
  /\ Host \in Slot /\ Client \subseteq Slot /\ Slot \subseteq Nat /\ Host \notin Client
  /\ Tick = 0..(MaxTick + 2 + InputDelay) /\ Tick \subseteq Nat
  BY MatchAssumption DEF Slot, Host, Client, Tick

\* Inputs are inputs, and None is not one of them.
LEMMA InputFacts ==
  /\ Neutral \in Input /\ \A s \in Slot : \A t \in Tick : InputOf(s, t) \subseteq Input
  /\ None \notin Input /\ \A s \in Slot : \A t \in Tick : None \notin InputOf(s, t)
  BY NoneAssumption DEF Input

\* What a message of each kind carries.
LEMMA MessageFacts ==
  ASSUME NEW m \in Message
  PROVE  /\ m.kind = "frame" => m.frame \in AnyFrame
         /\ m.kind = "pause" => m.paused \in BOOLEAN
         /\ m.kind \in {"start", "frame", "pause"}
  BY DEF Message, MatchStart, TickFrame, PauseState

\* The messages the host builds are messages.
LEMMA MessageTypes ==
  /\ MatchStart \in Message /\ MatchStart.kind = "start"
  /\ \A f \in AnyFrame : TickFrame(f) \in Message /\ TickFrame(f).kind = "frame" /\ TickFrame(f).frame = f
  /\ \A p \in BOOLEAN : PauseState(p) \in Message /\ PauseState(p).kind = "pause" /\ PauseState(p).paused = p
  BY DEF Message, MatchStart, TickFrame, PauseState

\* What a client is sent first.
LEMMA FirstChannel ==
  ASSUME Init
  PROVE  /\ channel \in [Client -> Seq(Message)]
         /\ \A c \in Client :
              /\ InputDelay = 0 => /\ Len(channel[c]) = 2 /\ channel[c][1].kind = "start"
                                  /\ channel[c][2].kind = "pause" /\ channel[c][2].paused = TRUE
              /\ InputDelay # 0 => Len(channel[c]) = 1 /\ channel[c][1].kind = "start"
  <1> PICK m, p : m = MatchStart /\ p = PauseState(TRUE)
    OBVIOUS
  <1>1. /\ m \in Message /\ p \in Message
        /\ m.kind = "start" /\ p.kind = "pause" /\ p.paused = TRUE
    BY MessageTypes
  <1>2. channel = [d \in Client |-> IF InputDelay = 0 THEN <<m, p>> ELSE <<m>>]
    BY DEF Init
  <1>3. <<m, p>> \in Seq(Message) /\ <<m>> \in Seq(Message)
    <2>1. <<m>> \in Seq(Message)
      BY <1>1
    <2>2. \A S : \A a, b \in S : <<a, b>> \in Seq(S)
      OBVIOUS
    <2> QED BY <1>1, <2>1, <2>2
  <1>4. channel \in [Client -> Seq(Message)]
    BY <1>2, <1>3
  <1>5. Len(<<m, p>>) = 2 /\ <<m, p>>[1] = m /\ <<m, p>>[2] = p /\ Len(<<m>>) = 1 /\ <<m>>[1] = m
    OBVIOUS
  <1> QED BY <1>1, <1>2, <1>4, <1>5

\* The initial state has the right types.
LEMMA InitType == Init => TypeOK /\ ChannelOK
  <1> SUFFICES ASSUME Init PROVE TypeOK /\ ChannelOK
    OBVIOUS
  <1>1. readyTicks \in Seq(Ready)
    BY Numbers, InputFacts DEF Init, Ready
  <1>2. hostInputs \in [Tick -> [Slot -> Known]]
    BY DEF Init, NoInputs, Known
  <1>3. \A S : << >> \in Seq(S)
    BY EmptySeq
  <1>4. ChannelOK
    BY FirstChannel DEF ChannelOK
  <1>5. /\ nextEmit \in 0..(MaxTick + 1) /\ hostCapture \in Nat /\ submitted \in 0..MaxCommands
        /\ seenSlots \in SUBSET Client
        /\ <<paused, updating, stalled>> \in BOOLEAN \X BOOLEAN \X BOOLEAN
    <2>1. paused \in BOOLEAN /\ updating \in BOOLEAN /\ stalled \in BOOLEAN
      BY DEF Init
    <2>2. /\ nextEmit \in 0..(MaxTick + 1) /\ hostCapture \in Nat /\ submitted \in 0..MaxCommands
          /\ seenSlots \in SUBSET Client
      BY Numbers DEF Init
    <2> QED BY <2>1, <2>2
  <1>6. commands \in Seq(Command) /\ log \in Seq(AnyFrame)
    BY <1>3 DEF Init
  <1>7. /\ phase \in [Client -> {"lobby", "loading", "playing"}] /\ capture \in [Client -> Nat]
        /\ sentInputs \in [Client -> [Tick -> Known]]
        /\ canonical \in [Client -> SUBSET AnyFrame]
        /\ nextConsume \in [Client -> 0..(MaxTick + 1)] /\ clientPause \in [Client -> BOOLEAN]
    BY Numbers DEF Init, Known
  <1>8. replayed \in [Client -> Seq(AnyFrame)]
    BY <1>3 DEF Init
  <1>9. \A b \in batches : b.slot \in Client /\ DOMAIN b.samples \subseteq Tick
    BY DEF Init
  <1>10. TypeOK
    BY <1>1, <1>2, <1>5, <1>6, <1>7, <1>8, <1>9 DEF TypeOK, Ready
  <1> QED BY <1>4, <1>10

\* The initial state satisfies the inductive invariant.
LEMMA InitIInv == Init => IInv
  <1> SUFFICES ASSUME Init PROVE IInv
    OBVIOUS
  <1>1. OrderOK
    BY Numbers, EmptySeq DEF Init, OrderOK
  <1>2. InputsOK
    <2>1. \A i \in 1..Len(readyTicks) : Authentic(readyTicks[i].tick, readyTicks[i].inputs)
      BY Numbers DEF Init, Authentic
    <2>2. Len(log) = 0 /\ batches = {}
      BY EmptySeq DEF Init
    <2>3. /\ \A t \in Tick : \A s \in Slot : hostInputs[t][s] = None
          /\ \A c \in Client : \A t \in Tick : sentInputs[c][t] = None
      BY DEF Init, NoInputs
    <2> QED BY <2>1, <2>2, <2>3 DEF InputsOK, Captured
  <1>3. HostClock
    BY Numbers DEF Init, HostClock, NoInputs
  <1>4. CommandsOK
    BY EmptySeq DEF Init, CommandsOK
  <1>5. ASSUME NEW c \in Client PROVE ClientClock(c) /\ FramesOK(c) /\ PauseOK(c)
    <2>1. ClientClock(c)
      BY Numbers, EmptySeq DEF Init, ClientClock, NoInputs
    <2>2. FramesOK(c)
      <3>1. \A i \in 1..Len(channel[c]) : channel[c][i].kind # "frame"
        <4>1. CASE InputDelay = 0
          <5>1. Len(channel[c]) = 2 /\ channel[c][1].kind = "start" /\ channel[c][2].kind = "pause"
            BY <4>1, FirstChannel
          <5> QED BY <5>1
        <4>2. CASE InputDelay # 0
          <5>1. Len(channel[c]) = 1 /\ channel[c][1].kind = "start"
            BY <4>2, FirstChannel
          <5> QED BY <5>1
        <4> QED BY <4>1, <4>2
      <3>2. canonical[c] = {} /\ nextConsume[c] = 0 /\ Len(replayed[c]) = 0
        BY EmptySeq DEF Init
      <3> QED BY <3>1, <3>2 DEF FramesOK
    <2>3. PauseOK(c)
      <3>1. CASE InputDelay = 0
        <4>1. paused = TRUE
          BY <3>1 DEF Init
        <4>2. Len(channel[c]) = 2 /\ channel[c][2].kind = "pause" /\ channel[c][2].paused = paused
          BY <3>1, <4>1, FirstChannel
        <4> QED BY <4>2 DEF PauseOK
      <3>2. CASE InputDelay # 0
        <4>1. paused = FALSE /\ clientPause[c] = FALSE
          BY <3>2 DEF Init
        <4>2. Len(channel[c]) = 1 /\ channel[c][1].kind = "start"
          BY <3>2, FirstChannel
        <4>3. \A i \in 1..Len(channel[c]) : channel[c][i].kind # "pause"
          BY <4>2
        <4>4. clientPause[c] = paused
          BY <4>1
        <4> QED BY <4>3, <4>4 DEF PauseOK
      <3> QED BY <3>1, <3>2
    <2> QED BY <2>1, <2>2, <2>3
  <1> QED BY <1>1, <1>2, <1>3, <1>4, <1>5, InitType DEF IInv

-----------------------------------------------------------------------------
(* Types.                                                                  *)

\* Broadcasting a well-typed message keeps the channels well-typed.
LEMMA BroadcastType ==
  ASSUME ChannelOK, NEW m \in Message
  PROVE  Broadcast(m) \in [Client -> Seq(Message)]
  BY AppendProperties DEF Broadcast, ChannelOK

\* One update of the host makes ready the complete ticks up to `next'.
LEMMA HostUpdateFacts ==
  ASSUME TypeOK, ChannelOK, HostUpdate
  PROVE  \E next \in nextEmit..(MaxTick + 1) :
           /\ next \in 0..(MaxTick + 1) /\ nextEmit \in Nat
           /\ \A t \in nextEmit..(next - 1) : /\ t \in Tick /\ t \in 0..MaxTick
                                              /\ hostInputs[t] \in [Slot -> Input]
           /\ nextEmit' = next
           /\ readyTicks \in Seq(Ready) /\ Len(readyTicks) \in Nat
           /\ readyTicks' \in Seq(Ready)
           /\ Len(readyTicks') = Len(readyTicks) + (next - nextEmit)
           /\ \A i \in 1..Len(readyTicks') :
                \/ i \in 1..Len(readyTicks) /\ readyTicks'[i] = readyTicks[i]
                \/ \E t \in nextEmit..(next - 1) :
                     /\ i = Len(readyTicks) + 1 + t - nextEmit
                     /\ readyTicks'[i] = [tick |-> t, inputs |-> hostInputs[t]]
           /\ hostInputs' = [t \in Tick |-> IF t < next THEN NoInputs ELSE hostInputs[t]]
           /\ stalled' = (stalled /\ next = nextEmit)
  <1>1. PICK next \in nextEmit..(MaxTick + 1) :
          /\ \A t \in nextEmit..(next - 1) : TickComplete(hostInputs, t)
          /\ nextEmit' = next
          /\ readyTicks' = readyTicks \o ReadyTicks(next)
          /\ hostInputs' = [t \in Tick |-> IF t < next THEN NoInputs ELSE hostInputs[t]]
          /\ stalled' = (stalled /\ next = nextEmit)
    BY DEF HostUpdate
  <1>2. nextEmit \in Nat /\ next \in 0..(MaxTick + 1)
    BY Numbers DEF TypeOK
  <1>3. \A t \in nextEmit..(next - 1) : /\ t \in Tick /\ t \in 0..MaxTick
                                        /\ hostInputs[t] \in [Slot -> Input]
    <2> SUFFICES ASSUME NEW t \in nextEmit..(next - 1)
                 PROVE  t \in Tick /\ t \in 0..MaxTick /\ hostInputs[t] \in [Slot -> Input]
      OBVIOUS
    <2>1. t \in 0..MaxTick /\ t \in Tick
      BY <1>2, Numbers
    <2>2. hostInputs[t] \in [Slot -> Known] /\ \A s \in Slot : hostInputs[t][s] # None
      BY <1>1, <2>1 DEF TypeOK, TickComplete
    <2>3. hostInputs[t] \in [Slot -> Input]
      BY <2>2 DEF Known
    <2> QED BY <2>1, <2>3
  <1> PICK n : n = next - nextEmit
    OBVIOUS
  <1> PICK new : new = ReadyTicks(next)
    OBVIOUS
  <1>4. /\ n \in Nat /\ new \in Seq(Ready) /\ Len(new) = n
        /\ \A i \in 1..n : /\ nextEmit + i - 1 \in nextEmit..(next - 1)
                           /\ new[i] = [tick |-> nextEmit + i - 1,
                                        inputs |-> hostInputs[nextEmit + i - 1]]
    <2>1. n \in Nat /\ \A i \in 1..n : nextEmit + i - 1 \in nextEmit..(next - 1)
      BY <1>2
    <2>2. \A i \in 1..n : [tick |-> nextEmit + i - 1, inputs |-> hostInputs[nextEmit + i - 1]] \in Ready
      BY <1>3, <2>1 DEF Ready
    <2>3. new = [i \in 1..n |-> [tick |-> nextEmit + i - 1, inputs |-> hostInputs[nextEmit + i - 1]]]
      BY DEF ReadyTicks
    <2> QED BY <2>1, <2>2, <2>3
  <1>5. /\ readyTicks \in Seq(Ready) /\ Len(readyTicks) \in Nat
        /\ readyTicks' \in Seq(Ready) /\ Len(readyTicks') = Len(readyTicks) + n
        /\ \A i \in 1..Len(readyTicks') :
             readyTicks'[i] = IF i <= Len(readyTicks) THEN readyTicks[i] ELSE new[i - Len(readyTicks)]
    <2>1. readyTicks \in Seq(Ready) /\ readyTicks' = readyTicks \o new
      BY <1>1 DEF TypeOK, Ready
    <2>2. Len(readyTicks) \in Nat
      BY <2>1, LenProperties
    <2>3. /\ readyTicks \o new \in Seq(Ready) /\ Len(readyTicks \o new) = Len(readyTicks) + n
          /\ \A i \in 1..(Len(readyTicks) + n) : (readyTicks \o new)[i] =
               IF i <= Len(readyTicks) THEN readyTicks[i] ELSE new[i - Len(readyTicks)]
      BY <1>4, <2>1, ConcatProperties
    <2> QED BY <2>1, <2>2, <2>3
  <1>6. ASSUME NEW i \in 1..Len(readyTicks')
        PROVE  \/ i \in 1..Len(readyTicks) /\ readyTicks'[i] = readyTicks[i]
               \/ \E t \in nextEmit..(next - 1) :
                    /\ i = Len(readyTicks) + 1 + t - nextEmit
                    /\ readyTicks'[i] = [tick |-> t, inputs |-> hostInputs[t]]
    <2>1. CASE i <= Len(readyTicks)
      BY <1>5, <2>1
    <2>2. CASE i > Len(readyTicks)
      <3> PICK k : k = i - Len(readyTicks)
        OBVIOUS
      <3>1. k \in 1..n /\ readyTicks'[i] = new[k] /\ i = Len(readyTicks) + k
        BY <1>4, <1>5, <2>2
      <3>2. nextEmit + k - 1 \in nextEmit..(next - 1)
        BY <1>4, <3>1
      <3>3. i = Len(readyTicks) + 1 + (nextEmit + k - 1) - nextEmit
        BY <1>2, <1>5, <3>1
      <3> QED BY <1>4, <3>1, <3>2, <3>3
    <2> QED BY <1>5, <2>1, <2>2
  <1> QED BY <1>1, <1>2, <1>3, <1>5, <1>6

\* The types are kept by the tail of the host's update().
LEMMA HostUpdateType ==
  ASSUME TypeOK, ChannelOK, HostUpdate
  PROVE  TypeOK' /\ ChannelOK'
  <1>1. PICK next \in 0..(MaxTick + 1) :
          /\ nextEmit' = next /\ readyTicks' \in Seq(Ready)
          /\ hostInputs' = [t \in Tick |-> IF t < next THEN NoInputs ELSE hostInputs[t]]
          /\ stalled' = (stalled /\ next = nextEmit)
    BY HostUpdateFacts
  <1>2. hostInputs' \in [Tick -> [Slot -> Known]]
    BY <1>1 DEF TypeOK, NoInputs, Known
  <1>3. /\ updating' = FALSE /\ paused' \in BOOLEAN /\ stalled' \in BOOLEAN
        /\ UNCHANGED <<hostCapture, seenSlots, commands, submitted, log, clientVars, batches>>
    BY <1>1 DEF HostUpdate, TypeOK
  <1>4. channel' \in [Client -> Seq(Message)]
    <2>1. PauseState(stalled /\ ~TickComplete(hostInputs, nextEmit)) \in Message
      BY MessageTypes
    <2> QED BY <2>1, BroadcastType DEF HostUpdate, PauseNotice, ChannelOK
  <1> QED BY <1>1, <1>2, <1>3, <1>4 DEF TypeOK, ChannelOK, Ready, clientVars

\* The types are kept when the host receives a batch.
LEMMA HostReceiveType ==
  ASSUME TypeOK, ChannelOK, InputsOK, NEW b \in batches, HostReceive(b)
  PROVE  TypeOK' /\ ChannelOK'
  <1>1. b.slot \in Client /\ b.slot \in Slot /\ DOMAIN b.samples \subseteq Tick
    BY Numbers DEF TypeOK
  <1>2. \A t \in DOMAIN b.samples : b.samples[t] \in Known
    BY <1>1, InputFacts DEF InputsOK, Known
  <1>3. hostInputs' \in [Tick -> [Slot -> Known]]
    <2>1. ASSUME NEW t \in Tick, t \in DOMAIN b.samples
          PROVE  [hostInputs[t] EXCEPT ![b.slot] = b.samples[t]] \in [Slot -> Known]
      BY <1>1, <1>2, <2>1 DEF TypeOK
    <2>2. hostInputs \in [Tick -> [Slot -> Known]]
      BY DEF TypeOK
    <2> DEFINE new(t) == IF t >= nextEmit /\ t \in DOMAIN b.samples
                         THEN [hostInputs[t] EXCEPT ![b.slot] = b.samples[t]] ELSE hostInputs[t]
    <2>3. hostInputs' = [t \in Tick |-> new(t)]
      BY DEF HostReceive, SubmitBatch
    <2>4. \A t \in Tick : new(t) \in [Slot -> Known]
      BY <2>1, <2>2
    <2> HIDE DEF new
    <2> QED BY <2>3, <2>4
  <1>4. /\ updating' = TRUE /\ seenSlots' \in SUBSET Client /\ batches' \subseteq batches
        /\ UNCHANGED <<nextEmit, readyTicks, hostCapture, commands, paused, submitted, stalled, log,
                       clientVars, channel>>
    BY <1>1 DEF HostReceive, TypeOK
  <1> QED BY <1>3, <1>4 DEF TypeOK, ChannelOK, clientVars

\* The types are kept when the host captures an input.
LEMMA HostCaptureType ==
  ASSUME TypeOK, ChannelOK, NEW in \in Input, HostCapture(in)
  PROVE  TypeOK' /\ ChannelOK'
  <1>1. hostInputs' \in [Tick -> [Slot -> Known]]
    <2>1. in \in Known
      BY DEF Known
    <2>2. \A t \in Tick : [hostInputs[t] EXCEPT ![Host] = in] \in [Slot -> Known]
      BY <2>1, Numbers DEF TypeOK
    <2> PICK target : target = MinOf(hostCapture, nextEmit + HostCaptureLead) + InputDelay
      OBVIOUS
    <2>3. \/ hostInputs' = hostInputs
          \/ hostInputs' = [hostInputs EXCEPT ![target] = [hostInputs[target] EXCEPT ![Host] = in]]
      BY DEF HostCapture
    <2>4. hostInputs \in [Tick -> [Slot -> Known]]
      BY DEF TypeOK
    <2>5. CASE target \in Tick
      BY <2>2, <2>3, <2>4, <2>5
    <2>6. CASE target \notin Tick
      BY <2>3, <2>4, <2>6
    <2> QED BY <2>5, <2>6
  <1>2. hostCapture' \in Nat
    BY Numbers DEF HostCapture, MinOf, HostCaptureLead, TypeOK
  <1>3. UNCHANGED <<nextEmit, readyTicks, seenSlots, commands, paused, submitted, updating, stalled,
                    log, clientVars, batches, channel>>
    BY DEF HostCapture
  <1> QED BY <1>1, <1>2, <1>3 DEF TypeOK, ChannelOK, clientVars

\* The types are kept when the host's player submits a command.
LEMMA SubmitCommandType ==
  ASSUME TypeOK, ChannelOK, SubmitCommand
  PROVE  TypeOK' /\ ChannelOK'
  <1>1. submitted' \in 0..MaxCommands /\ submitted + 1 \in Command
    BY Numbers DEF SubmitCommand, TypeOK, Command
  <1>2. commands' \in Seq(Command)
    BY <1>1, AppendProperties DEF SubmitCommand, TypeOK
  <1>3. UNCHANGED <<hostInputs, nextEmit, readyTicks, hostCapture, seenSlots, paused, updating, stalled,
                    log, clientVars, batches, channel>>
    BY DEF SubmitCommand
  <1> QED BY <1>1, <1>2, <1>3 DEF TypeOK, ChannelOK, clientVars

\* What a gameplay frame of the host does: it takes the first ready tick, and the
\* frame it makes of it ends the log and every client's channel.
StepFrame == [tick |-> Head(readyTicks).tick, inputs |-> Head(readyTicks).inputs,
              commands |-> commands]

\* The host's step moves one ready tick to the end of its log.
LEMMA HostStepFacts ==
  ASSUME TypeOK, ChannelOK, HostStep
  PROVE  /\ readyTicks \in Seq(Ready) /\ readyTicks # << >> /\ Head(readyTicks) = readyTicks[1]
         /\ StepFrame \in AnyFrame
         /\ readyTicks' \in Seq(Ready) /\ Len(readyTicks) \in Nat \ {0}
         /\ Len(readyTicks') = Len(readyTicks) - 1
         /\ \A i \in 1..Len(readyTicks') : readyTicks'[i] = readyTicks[i + 1]
         /\ log' \in Seq(AnyFrame) /\ Len(log) \in Nat /\ Len(log') = Len(log) + 1
         /\ \A i \in 1..Len(log) : log'[i] = log[i]
         /\ log'[Len(log) + 1] = StepFrame
         /\ channel' = Broadcast(TickFrame(StepFrame)) /\ TickFrame(StepFrame) \in Message
         /\ commands' = << >>
         /\ UNCHANGED <<hostInputs, nextEmit, hostCapture, seenSlots, paused, submitted,
                        updating, stalled, clientVars, batches>>
  <1>1. readyTicks \in Seq(Ready) /\ readyTicks # << >> /\ readyTicks' = Tail(readyTicks)
    BY DEF HostStep, TypeOK, Ready
  <1>2. /\ Head(readyTicks) \in Ready /\ Head(readyTicks) = readyTicks[1]
        /\ readyTicks' \in Seq(Ready) /\ Len(readyTicks) \in Nat \ {0}
        /\ Len(readyTicks') = Len(readyTicks) - 1
        /\ \A i \in 1..Len(readyTicks') : readyTicks'[i] = readyTicks[i + 1]
    BY <1>1, HeadTailProperties, EmptySeq
  <1>3. StepFrame \in AnyFrame
    BY <1>2 DEF StepFrame, AnyFrame, Ready, TypeOK
  <1>4. log \in Seq(AnyFrame) /\ log' = Append(log, StepFrame)
    BY DEF HostStep, StepFrame, TypeOK
  <1>5. /\ log' \in Seq(AnyFrame) /\ Len(log) \in Nat /\ Len(log') = Len(log) + 1
        /\ \A i \in 1..Len(log) : log'[i] = log[i]
        /\ log'[Len(log) + 1] = StepFrame
    BY <1>3, <1>4, AppendProperties, LenProperties
  <1>6. channel' = Broadcast(TickFrame(StepFrame)) /\ TickFrame(StepFrame) \in Message
    BY <1>3, MessageTypes DEF HostStep, StepFrame
  <1> QED BY <1>1, <1>2, <1>3, <1>5, <1>6 DEF HostStep

\* The types are kept by the host's step.
LEMMA HostStepType ==
  ASSUME TypeOK, ChannelOK, HostStep
  PROVE  TypeOK' /\ ChannelOK'
  <1>1. channel' \in [Client -> Seq(Message)] /\ readyTicks' \in Seq(Ready)
        /\ log' \in Seq(AnyFrame) /\ commands' \in Seq(Command)
    BY HostStepFacts, BroadcastType, EmptySeq
  <1>2. UNCHANGED <<hostInputs, nextEmit, hostCapture, seenSlots, paused, submitted,
                    updating, stalled, clientVars, batches>>
    BY DEF HostStep
  <1> QED BY <1>1, <1>2 DEF TypeOK, ChannelOK, Ready, clientVars

\* A client takes the next message of its channel.
LEMMA ClientReceiveFacts ==
  ASSUME TypeOK, ChannelOK, NEW c \in Client, ClientReceive(c), NEW m, m = Head(channel[c])
  PROVE  /\ m \in Message /\ m = channel[c][1] /\ channel[c] \in Seq(Message)
         /\ channel' = [channel EXCEPT ![c] = Tail(channel[c])]
         /\ channel'[c] \in Seq(Message) /\ Len(channel[c]) \in Nat \ {0}
         /\ Len(channel'[c]) = Len(channel[c]) - 1
         /\ \A i \in 1..Len(channel'[c]) : channel'[c][i] = channel[c][i + 1]
         /\ \A d \in Client \ {c} : channel'[d] = channel[d]
  <1>1. /\ channel[c] \in Seq(Message) /\ channel[c] # << >>
        /\ channel' = [channel EXCEPT ![c] = Tail(channel[c])]
    BY DEF ClientReceive, ChannelOK
  <1>2. channel'[c] = Tail(channel[c]) /\ \A d \in Client \ {c} : channel'[d] = channel[d]
    BY <1>1 DEF ChannelOK
  <1>3. Head(channel[c]) \in Message /\ Head(channel[c]) = channel[c][1]
    BY <1>1, HeadTailProperties
  <1>4. Len(channel[c]) \in Nat \ {0}
    BY <1>1, EmptySeq
  <1>5. /\ channel'[c] \in Seq(Message) /\ Len(channel'[c]) = Len(channel[c]) - 1
        /\ \A i \in 1..Len(channel'[c]) : channel'[c][i] = channel[c][i + 1]
    <2>1. /\ Tail(channel[c]) \in Seq(Message) /\ Len(Tail(channel[c])) = Len(channel[c]) - 1
          /\ \A i \in 1..Len(Tail(channel[c])) : Tail(channel[c])[i] = channel[c][i + 1]
      BY <1>1, HeadTailProperties
    <2> QED BY <1>2, <2>1
  <1> QED BY <1>1, <1>2, <1>3, <1>4, <1>5

\* The types are kept when a client takes a message.
LEMMA ClientReceiveType ==
  ASSUME TypeOK, ChannelOK, NEW c \in Client, ClientReceive(c)
  PROVE  TypeOK' /\ ChannelOK'
  <1> PICK m : m = Head(channel[c])
    OBVIOUS
  <1>1. m \in Message /\ channel' \in [Client -> Seq(Message)]
    BY ClientReceiveFacts DEF ChannelOK
  <1>2. /\ phase' \in [Client -> {"lobby", "loading", "playing"}]
        /\ canonical' \in [Client -> SUBSET AnyFrame]
        /\ clientPause' \in [Client -> BOOLEAN]
    <2>1. CASE m.kind = "start"
      <3>1. /\ phase' = [phase EXCEPT ![c] = "loading"]
            /\ UNCHANGED <<canonical, clientPause>>
        BY <2>1 DEF ClientReceive
      <3> QED BY <3>1 DEF TypeOK
    <2>2. CASE m.kind = "frame"
      <3>1. m.frame \in AnyFrame
        BY <1>1, <2>2, MessageFacts
      <3>2. /\ canonical' = [canonical EXCEPT ![c] =
                               {f \in canonical[c] : f.tick # m.frame.tick} \cup {m.frame}]
            /\ UNCHANGED <<phase, clientPause>>
        BY <2>2 DEF ClientReceive
      <3> QED BY <3>1, <3>2 DEF TypeOK
    <2>3. CASE m.kind = "pause"
      <3>1. m.paused \in BOOLEAN
        BY <1>1, <2>3, MessageFacts
      <3>2. clientPause' = [clientPause EXCEPT ![c] = m.paused] /\ UNCHANGED <<phase, canonical>>
        BY <2>3 DEF ClientReceive
      <3> QED BY <3>1, <3>2 DEF TypeOK
    <2> QED BY <1>1, <2>1, <2>2, <2>3, MessageFacts
  <1>3. UNCHANGED <<hostVars, capture, sentInputs, nextConsume, replayed, batches>>
    BY DEF ClientReceive
  <1> QED BY <1>1, <1>2, <1>3 DEF TypeOK, ChannelOK, hostVars

\* A client captures its input for the tick `target'.
LEMMA ClientCaptureFacts ==
  ASSUME TypeOK, NEW c \in Client, NEW in \in Input, ClientCapture(c, in),
         NEW target, target = CaptureAt(c) + InputDelay
  PROVE  /\ CaptureAt(c) \in Nat /\ CaptureAt(c) <= capture[c]
         /\ CaptureAt(c) <= nextConsume[c] + 1
         /\ CaptureAt(c) = capture[c] \/ CaptureAt(c) = nextConsume[c] + 1
         /\ target \in Tick /\ in \in InputOf(c, target) /\ in # None
         /\ capture' = [capture EXCEPT ![c] = CaptureAt(c) + 1]
         /\ \A b \in batches' : \/ b \in batches
                                \/ /\ b.slot = c
                                   /\ \A t \in DOMAIN b.samples :
                                        /\ t \in Tick /\ t <= target
                                        /\ IF t = target THEN b.samples[t] = in
                                           ELSE /\ b.samples[t] = sentInputs[c][t]
                                                /\ sentInputs[c][t] # None
         /\ \A d \in Client \ {c} : sentInputs'[d] = sentInputs[d]
         /\ \A t \in Tick : sentInputs'[c][t] =
              IF t < nextConsume[c] \/ t <= target - MaxHistory \/ t > target THEN None
              ELSE IF t = target THEN in ELSE sentInputs[c][t]
         /\ sentInputs' \in [Client -> [Tick -> Known]]
         /\ UNCHANGED <<hostVars, phase, canonical, nextConsume, clientPause, replayed, channel>>
  <1>1. capture[c] \in Nat /\ nextConsume[c] \in 0..(MaxTick + 1)
    BY DEF TypeOK
  <1>2. /\ CaptureAt(c) \in Nat /\ CaptureAt(c) <= capture[c] /\ CaptureAt(c) <= nextConsume[c] + 1
        /\ CaptureAt(c) = capture[c] \/ CaptureAt(c) = nextConsume[c] + 1
    BY <1>1, Numbers DEF CaptureAt, MinOf, ClientCaptureLead
  <1>3. target \in Tick
    BY <1>1, <1>2, Numbers
  <1>4. in \in InputOf(c, target) /\ in # None /\ in \in Known
    BY NoneAssumption DEF ClientCapture, Known
  <1> PICK inputs : inputs = [sentInputs[c] EXCEPT ![target] = in]
    OBVIOUS
  <1>5. /\ sentInputs[c] \in [Tick -> Known] /\ inputs \in [Tick -> Known]
        /\ \A t \in Tick : inputs[t] = IF t = target THEN in ELSE sentInputs[c][t]
    BY <1>3, <1>4 DEF TypeOK
  <1> PICK known : known = {t \in Tick : inputs[t] # None}
    OBVIOUS
  <1>6. /\ SendBatch(c, [t \in BatchTicks(c, known, target) |-> inputs[t]])
        /\ sentInputs' = [sentInputs EXCEPT ![c] = [t \in Tick |->
             IF t < nextConsume[c] \/ t <= target - MaxHistory \/ t > target THEN None ELSE inputs[t]]]
    BY DEF ClientCapture
  <1>7. \A t \in BatchTicks(c, known, target) : t \in Tick /\ inputs[t] # None /\ t <= target
    BY DEF BatchTicks
  <1> PICK fresh : fresh = [slot |-> c, samples |-> [t \in BatchTicks(c, known, target) |-> inputs[t]]]
    OBVIOUS
  <1>8. batches' = batches \cup {fresh}
    BY <1>6 DEF SendBatch
  <1>9. fresh.slot = c /\ \A t \in DOMAIN fresh.samples :
          t \in Tick /\ t <= target /\ fresh.samples[t] = inputs[t] /\ inputs[t] # None
    BY <1>7
  <1>10. /\ \A d \in Client \ {c} : sentInputs'[d] = sentInputs[d]
         /\ sentInputs'[c] = [t \in Tick |->
              IF t < nextConsume[c] \/ t <= target - MaxHistory \/ t > target THEN None ELSE inputs[t]]
    BY <1>6 DEF TypeOK
  <1>11. sentInputs' \in [Client -> [Tick -> Known]]
    <2>1. [t \in Tick |-> IF t < nextConsume[c] \/ t <= target - MaxHistory \/ t > target
                          THEN None ELSE inputs[t]] \in [Tick -> Known]
      BY <1>5 DEF Known
    <2> QED BY <1>6, <2>1 DEF TypeOK
  <1>12. capture' = [capture EXCEPT ![c] = CaptureAt(c) + 1]
         /\ UNCHANGED <<hostVars, phase, canonical, nextConsume, clientPause, replayed, channel>>
    BY DEF ClientCapture
  <1>13. \A b \in batches' : \/ b \in batches
                             \/ /\ b.slot = c
                                /\ \A t \in DOMAIN b.samples :
                                     /\ t \in Tick /\ t <= target
                                     /\ IF t = target THEN b.samples[t] = in
                                        ELSE b.samples[t] = sentInputs[c][t] /\ sentInputs[c][t] # None
    BY <1>5, <1>8, <1>9
  <1> QED BY <1>2, <1>3, <1>4, <1>5, <1>10, <1>11, <1>12, <1>13

\* The types are kept when a client captures an input.
LEMMA ClientCaptureType ==
  ASSUME TypeOK, ChannelOK, NEW c \in Client, NEW in \in Input, ClientCapture(c, in)
  PROVE  TypeOK' /\ ChannelOK'
  <1> PICK target : target = CaptureAt(c) + InputDelay
    OBVIOUS
  <1>1. /\ CaptureAt(c) \in Nat /\ capture' = [capture EXCEPT ![c] = CaptureAt(c) + 1]
        /\ sentInputs' \in [Client -> [Tick -> Known]]
        /\ \A b \in batches' : \/ b \in batches
                               \/ b.slot = c /\ \A t \in DOMAIN b.samples : t \in Tick
        /\ UNCHANGED <<hostVars, phase, canonical, nextConsume, clientPause, replayed, channel>>
    BY ClientCaptureFacts
  <1>2. capture' \in [Client -> Nat]
    BY <1>1 DEF TypeOK
  <1>3. \A b \in batches' : b.slot \in Client /\ DOMAIN b.samples \subseteq Tick
    BY <1>1 DEF TypeOK
  <1> QED BY <1>1, <1>2, <1>3 DEF TypeOK, ChannelOK, hostVars

\* The types are kept when a client plays a tick.
LEMMA ClientStepType ==
  ASSUME TypeOK, ChannelOK, NEW c \in Client, ClientStep(c)
  PROVE  TypeOK' /\ ChannelOK'
  <1>1. PICK f \in canonical[c] : /\ f.tick = nextConsume[c]
                                  /\ canonical' = [canonical EXCEPT ![c] = @ \ {f}]
                                  /\ replayed' = [replayed EXCEPT ![c] = Append(@, f)]
    BY DEF ClientStep
  <1>2. f \in AnyFrame /\ f.tick \in 0..MaxTick
    BY DEF TypeOK, AnyFrame
  <1>3. nextConsume' \in [Client -> 0..(MaxTick + 1)]
    <2>1. nextConsume[c] + 1 \in 0..(MaxTick + 1)
      BY <1>1, <1>2, Numbers
    <2>2. nextConsume' = [nextConsume EXCEPT ![c] = nextConsume[c] + 1]
      BY DEF ClientStep
    <2> QED BY <2>1, <2>2 DEF TypeOK
  <1>4. replayed' \in [Client -> Seq(AnyFrame)]
    BY <1>1, <1>2, AppendProperties DEF TypeOK
  <1>5. canonical' \in [Client -> SUBSET AnyFrame]
    BY <1>1 DEF TypeOK
  <1>6. UNCHANGED <<hostVars, phase, capture, sentInputs, clientPause, batches, channel>>
    BY DEF ClientStep
  <1> QED BY <1>3, <1>4, <1>5, <1>6 DEF TypeOK, ChannelOK, hostVars

\* Every step keeps the types and the well-formed channels.
LEMMA NextType == TypeOK /\ ChannelOK /\ InputsOK /\ [Next]_vars => TypeOK' /\ ChannelOK'
  <1> SUFFICES ASSUME TypeOK, ChannelOK, InputsOK, [Next]_vars PROVE TypeOK' /\ ChannelOK'
    OBVIOUS
  <1>1. CASE HostUpdate
    BY <1>1, HostUpdateType
  <1>2. ASSUME NEW b \in batches, HostReceive(b) PROVE TypeOK' /\ ChannelOK'
    BY <1>2, HostReceiveType
  <1>3. ASSUME NEW in \in Input, HostCapture(in) PROVE TypeOK' /\ ChannelOK'
    BY <1>3, HostCaptureType
  <1>4. CASE SubmitCommand
    BY <1>4, SubmitCommandType
  <1>5. CASE HostStep
    BY <1>5, HostStepType
  <1>6. CASE StallElapses
    BY <1>6 DEF StallElapses, TypeOK, ChannelOK, clientVars
  <1>7. ASSUME NEW c \in Client, ClientReceive(c) PROVE TypeOK' /\ ChannelOK'
    BY <1>7, ClientReceiveType
  <1>8. ASSUME NEW c \in Client, EnterGameplay(c) PROVE TypeOK' /\ ChannelOK'
    BY <1>8 DEF EnterGameplay, TypeOK, ChannelOK, hostVars
  <1>9. ASSUME NEW c \in Client, NEW in \in Input, ClientCapture(c, in) PROVE TypeOK' /\ ChannelOK'
    BY <1>9, ClientCaptureType
  <1>10. ASSUME NEW c \in Client, ClientStep(c) PROVE TypeOK' /\ ChannelOK'
    BY <1>10, ClientStepType
  <1>11. ASSUME NEW c \in Client, IdleHeartbeat(c) PROVE TypeOK' /\ ChannelOK'
    <2>1. batches' = batches \cup {[slot |-> c, samples |-> << >>]}
      BY <1>11 DEF IdleHeartbeat, SendBatch
    <2>2. \A b \in batches' : b.slot \in Client /\ DOMAIN b.samples \subseteq Tick
      BY <2>1 DEF TypeOK
    <2> QED BY <1>11, <2>2 DEF IdleHeartbeat, TypeOK, ChannelOK, hostVars, clientVars
  <1>12. ASSUME NEW b \in batches, LoseBatch(b) PROVE TypeOK' /\ ChannelOK'
    BY <1>12 DEF LoseBatch, TypeOK, ChannelOK, hostVars, clientVars
  <1>13. CASE UNCHANGED vars
    BY <1>13 DEF vars, TypeOK, ChannelOK
  <1> QED BY <1>1, <1>2, <1>3, <1>4, <1>5, <1>6, <1>7, <1>8, <1>9, <1>10, <1>11, <1>12, <1>13 DEF Next

-----------------------------------------------------------------------------
(* The host's table of inputs.                                             *)

\* What a received batch may change in the host's input table.
LEMMA ReceiveTable ==
  ASSUME TypeOK, NEW b \in batches, HostReceive(b), NEW t \in Tick
  PROVE  /\ t < nextEmit => hostInputs'[t] = hostInputs[t]
         /\ \A s \in Slot : \/ hostInputs'[t][s] = hostInputs[t][s]
                            \/ /\ s = b.slot /\ t \in DOMAIN b.samples
                               /\ hostInputs'[t][s] = b.samples[t]
  <1>1. hostInputs'[t] = IF t >= nextEmit /\ t \in DOMAIN b.samples
                         THEN [hostInputs[t] EXCEPT ![b.slot] = b.samples[t]] ELSE hostInputs[t]
    BY DEF HostReceive, SubmitBatch
  <1>2. hostInputs[t] \in [Slot -> Known] /\ nextEmit \in Nat /\ t \in Nat
    BY Numbers DEF TypeOK
  <1> QED BY <1>1, <1>2

\* What a capture may change in the host's input table, and where it lands.
LEMMA CaptureTable ==
  ASSUME TypeOK, NEW in \in Input, HostCapture(in)
  PROVE  \E at \in Nat :
           /\ at <= hostCapture /\ at <= nextEmit + 1 /\ (at = hostCapture \/ at = nextEmit + 1)
           /\ hostCapture' = at + 1
           /\ \A t \in Tick :
                /\ t < nextEmit => hostInputs'[t] = hostInputs[t]
                /\ \A s \in Slot : \/ hostInputs'[t][s] = hostInputs[t][s]
                                   \/ /\ s = Host /\ t = at + InputDelay
                                      /\ hostInputs'[t][s] = in /\ in \in InputOf(Host, t)
  <1> PICK at : at = MinOf(hostCapture, nextEmit + HostCaptureLead)
    OBVIOUS
  <1>1. /\ at \in Nat /\ hostCapture \in Nat /\ nextEmit \in Nat
        /\ at <= hostCapture /\ at <= nextEmit + 1 /\ (at = hostCapture \/ at = nextEmit + 1)
    BY Numbers DEF TypeOK, MinOf, HostCaptureLead
  <1>2. /\ hostCapture' = at + 1 /\ in \in InputOf(Host, at + InputDelay)
        /\ hostInputs' = IF at + InputDelay < nextEmit THEN hostInputs
                         ELSE [hostInputs EXCEPT ![at + InputDelay][Host] = in]
    BY DEF HostCapture
  <1>3. ASSUME NEW t \in Tick
        PROVE  /\ t < nextEmit => hostInputs'[t] = hostInputs[t]
               /\ \A s \in Slot : \/ hostInputs'[t][s] = hostInputs[t][s]
                                  \/ /\ s = Host /\ t = at + InputDelay
                                     /\ hostInputs'[t][s] = in /\ in \in InputOf(Host, t)
    <2>1. hostInputs[t] \in [Slot -> Known] /\ hostInputs \in [Tick -> [Slot -> Known]]
      BY DEF TypeOK
    <2>2. CASE t = at + InputDelay
      <3>1. hostInputs'[t] = IF t < nextEmit THEN hostInputs[t]
                             ELSE [hostInputs[t] EXCEPT ![Host] = in]
        BY <1>2, <2>1, <2>2
      <3> QED BY <1>2, <2>1, <2>2, <3>1
    <2>3. CASE t # at + InputDelay
      BY <1>2, <2>1, <2>3
    <2> QED BY <2>2, <2>3
  <1> QED BY <1>1, <1>2, <1>3

-----------------------------------------------------------------------------
(* Each part of the invariant is kept.                                     *)

\* Log, ready ticks and next tick to emit stay in line.
LEMMA OrderKept ==
  ASSUME TypeOK, ChannelOK, OrderOK, [Next]_vars
  PROVE  OrderOK'
  <1>1. nextEmit \in Nat /\ Len(log) \in Nat /\ Len(readyTicks) \in Nat
    BY Numbers, LenProperties DEF TypeOK
  <1>2. CASE HostUpdate
    <2>1. PICK next \in nextEmit..(MaxTick + 1) :
             /\ nextEmit' = next
             /\ Len(readyTicks') = Len(readyTicks) + (next - nextEmit)
             /\ \A i \in 1..Len(readyTicks') :
                  \/ i \in 1..Len(readyTicks) /\ readyTicks'[i] = readyTicks[i]
                  \/ \E t \in nextEmit..(next - 1) :
                       /\ i = Len(readyTicks) + 1 + t - nextEmit
                       /\ readyTicks'[i] = [tick |-> t, inputs |-> hostInputs[t]]
             /\ hostInputs' = [t \in Tick |-> IF t < next THEN NoInputs ELSE hostInputs[t]]
      BY <1>2, HostUpdateFacts
    <2>2. log' = log
      BY <1>2 DEF HostUpdate
    <2>3. InputDelay <= nextEmit' /\ nextEmit' = Len(log') + Len(readyTicks')
      BY <1>1, <2>1, <2>2, Numbers DEF OrderOK
    <2>4. ASSUME NEW i \in 1..Len(readyTicks') PROVE readyTicks'[i].tick = Len(log) + i - 1
      <3>1. CASE i \in 1..Len(readyTicks) /\ readyTicks'[i] = readyTicks[i]
        BY <3>1 DEF OrderOK
      <3>2. ASSUME NEW t \in nextEmit..(next - 1), i = Len(readyTicks) + 1 + t - nextEmit,
                   readyTicks'[i] = [tick |-> t, inputs |-> hostInputs[t]]
            PROVE  readyTicks'[i].tick = Len(log) + i - 1
        BY <1>1, <3>2 DEF OrderOK
      <3> QED BY <2>1, <3>1, <3>2
    <2>5. \A t \in Tick : t < nextEmit' => hostInputs'[t] = NoInputs
      BY <2>1
    <2>6. \A i \in 1..Len(log) : log[i].tick = i - 1
      BY DEF OrderOK
    <2> QED BY <2>2, <2>3, <2>4, <2>5, <2>6 DEF OrderOK
  <1>3. ASSUME NEW b \in batches, HostReceive(b) PROVE OrderOK'
    <2>1. UNCHANGED <<nextEmit, log, readyTicks>>
      BY <1>3 DEF HostReceive
    <2>2. \A t \in Tick : t < nextEmit => hostInputs'[t] = NoInputs
      BY <1>3, ReceiveTable DEF OrderOK
    <2> QED BY <2>1, <2>2 DEF OrderOK
  <1>4. ASSUME NEW in \in Input, HostCapture(in) PROVE OrderOK'
    <2>1. UNCHANGED <<nextEmit, log, readyTicks>>
      BY <1>4 DEF HostCapture
    <2>2. \A t \in Tick : t < nextEmit => hostInputs'[t] = NoInputs
      BY <1>4, CaptureTable DEF OrderOK
    <2> QED BY <2>1, <2>2 DEF OrderOK
  <1>5. CASE HostStep
    <2>1. /\ Len(readyTicks) \in Nat \ {0} /\ Len(readyTicks') = Len(readyTicks) - 1
          /\ \A i \in 1..Len(readyTicks') : readyTicks'[i] = readyTicks[i + 1]
          /\ Len(log') = Len(log) + 1 /\ \A i \in 1..Len(log) : log'[i] = log[i]
          /\ log'[Len(log) + 1].tick = readyTicks[1].tick
          /\ UNCHANGED <<hostInputs, nextEmit>>
      BY <1>5, HostStepFacts DEF StepFrame
    <2>2. nextEmit' = Len(log') + Len(readyTicks') /\ InputDelay <= nextEmit'
      BY <1>1, <2>1 DEF OrderOK
    <2>3. ASSUME NEW i \in 1..Len(log') PROVE log'[i].tick = i - 1
      <3>1. CASE i \in 1..Len(log)
        BY <2>1, <3>1 DEF OrderOK
      <3>2. CASE i = Len(log) + 1
        BY <1>1, <2>1, <3>2 DEF OrderOK
      <3> QED BY <1>1, <2>1, <3>1, <3>2
    <2>4. ASSUME NEW i \in 1..Len(readyTicks') PROVE readyTicks'[i].tick = Len(log') + i - 1
      <3>1. i + 1 \in 1..Len(readyTicks) /\ readyTicks'[i] = readyTicks[i + 1]
        BY <1>1, <2>1
      <3>2. readyTicks[i + 1].tick = Len(log) + (i + 1) - 1
        BY <3>1 DEF OrderOK
      <3> QED BY <1>1, <2>1, <3>1, <3>2
    <2> QED BY <2>1, <2>2, <2>3, <2>4 DEF OrderOK
  <1>6. CASE UNCHANGED <<nextEmit, log, readyTicks, hostInputs>>
    BY <1>6 DEF OrderOK
  <1> QED
    BY <1>2, <1>3, <1>4, <1>5, <1>6
    DEF Next, vars, hostVars, SubmitCommand, StallElapses, ClientReceive, EnterGameplay,
        ClientCapture, ClientStep, IdleHeartbeat, LoseBatch

\* What is in the table, the batches, the ready ticks and the log stays authentic.
LEMMA InputsKept ==
  ASSUME TypeOK, ChannelOK, OrderOK, InputsOK, [Next]_vars
  PROVE  InputsOK'
  <1>1. nextEmit \in Nat /\ Len(log) \in Nat /\ Len(readyTicks) \in Nat
    BY Numbers, LenProperties DEF TypeOK
  <1>2. CASE HostUpdate
    <2>1. PICK next \in nextEmit..(MaxTick + 1) :
             /\ \A t \in nextEmit..(next - 1) : t \in Tick /\ hostInputs[t] \in [Slot -> Input]
             /\ \A i \in 1..Len(readyTicks') :
                  \/ i \in 1..Len(readyTicks) /\ readyTicks'[i] = readyTicks[i]
                  \/ \E t \in nextEmit..(next - 1) :
                       /\ i = Len(readyTicks) + 1 + t - nextEmit
                       /\ readyTicks'[i] = [tick |-> t, inputs |-> hostInputs[t]]
             /\ hostInputs' = [t \in Tick |-> IF t < next THEN NoInputs ELSE hostInputs[t]]
      BY <1>2, HostUpdateFacts
    <2>2. ASSUME NEW i \in 1..Len(readyTicks')
          PROVE  Authentic(readyTicks'[i].tick, readyTicks'[i].inputs)
      <3>1. CASE i \in 1..Len(readyTicks) /\ readyTicks'[i] = readyTicks[i]
        BY <3>1 DEF InputsOK
      <3>2. ASSUME NEW t \in nextEmit..(next - 1),
                   readyTicks'[i] = [tick |-> t, inputs |-> hostInputs[t]]
            PROVE  Authentic(readyTicks'[i].tick, readyTicks'[i].inputs)
        <4>1. ~(t < InputDelay) /\ t \in Tick
          BY <1>1, <2>1, Numbers DEF OrderOK
        <4>2. \A s \in Slot : hostInputs[t][s] \in InputOf(s, t)
          BY <2>1, <4>1, NoneAssumption DEF InputsOK, Captured
        <4>3. Authentic(t, hostInputs[t])
          BY <4>1, <4>2 DEF Authentic
        <4> QED BY <3>2, <4>3
      <3> QED BY <2>1, <3>1, <3>2
    <2>3. \A t \in Tick : \A s \in Slot : hostInputs'[t][s] \in Captured(s, t)
      BY <2>1 DEF InputsOK, NoInputs, Captured
    <2>4. UNCHANGED <<log, batches, sentInputs>>
      BY <1>2 DEF HostUpdate, clientVars
    <2> QED BY <2>2, <2>3, <2>4 DEF InputsOK
  <1>3. ASSUME NEW b \in batches, HostReceive(b) PROVE InputsOK'
    <2>1. UNCHANGED <<log, readyTicks, sentInputs>> /\ batches' \subseteq batches
      BY <1>3 DEF HostReceive, clientVars
    <2>2. \A t \in Tick : \A s \in Slot : hostInputs'[t][s] \in Captured(s, t)
      BY <1>3, ReceiveTable DEF InputsOK, Captured
    <2> QED BY <2>1, <2>2 DEF InputsOK
  <1>4. ASSUME NEW in \in Input, HostCapture(in) PROVE InputsOK'
    <2>1. UNCHANGED <<log, readyTicks, sentInputs, batches>>
      BY <1>4 DEF HostCapture, clientVars
    <2>2. \A t \in Tick : \A s \in Slot : hostInputs'[t][s] \in Captured(s, t)
      BY <1>4, CaptureTable DEF InputsOK, Captured
    <2> QED BY <2>1, <2>2 DEF InputsOK
  <1>5. CASE HostStep
    <2>1. /\ Len(readyTicks) \in Nat \ {0} /\ Len(readyTicks') = Len(readyTicks) - 1
          /\ \A i \in 1..Len(readyTicks') : readyTicks'[i] = readyTicks[i + 1]
          /\ Len(log') = Len(log) + 1 /\ \A i \in 1..Len(log) : log'[i] = log[i]
          /\ log'[Len(log) + 1].tick = readyTicks[1].tick
          /\ log'[Len(log) + 1].inputs = readyTicks[1].inputs
          /\ UNCHANGED <<hostInputs, sentInputs, batches>>
      <3>1. StepFrame.tick = readyTicks[1].tick /\ StepFrame.inputs = readyTicks[1].inputs
        BY <1>5, HostStepFacts DEF StepFrame
      <3>2. UNCHANGED <<hostInputs, sentInputs, batches>>
        BY <1>5 DEF HostStep, clientVars
      <3> QED BY <1>5, <3>1, <3>2, HostStepFacts
    <2>2. ASSUME NEW i \in 1..Len(log') PROVE Authentic(log'[i].tick, log'[i].inputs)
      <3>1. CASE i \in 1..Len(log)
        BY <2>1, <3>1 DEF InputsOK
      <3>2. CASE i = Len(log) + 1
        BY <2>1, <3>2 DEF InputsOK
      <3> QED BY <1>1, <2>1, <3>1, <3>2
    <2>3. ASSUME NEW i \in 1..Len(readyTicks')
          PROVE  Authentic(readyTicks'[i].tick, readyTicks'[i].inputs)
      <3>1. i + 1 \in 1..Len(readyTicks) /\ readyTicks'[i] = readyTicks[i + 1]
        BY <1>1, <2>1
      <3> QED BY <3>1 DEF InputsOK
    <2> QED BY <2>1, <2>2, <2>3 DEF InputsOK
  <1>6. ASSUME NEW c \in Client, NEW in \in Input, ClientCapture(c, in) PROVE InputsOK'
    <2> PICK target : target = CaptureAt(c) + InputDelay
      OBVIOUS
    <2>1. UNCHANGED <<log, readyTicks, hostInputs>>
      BY <1>6 DEF ClientCapture, hostVars
    <2>2. /\ target \in Tick /\ in \in InputOf(c, target)
          /\ \A d \in Client \ {c} : sentInputs'[d] = sentInputs[d]
          /\ \A t \in Tick : sentInputs'[c][t] =
               IF t < nextConsume[c] \/ t <= target - MaxHistory \/ t > target THEN None
               ELSE IF t = target THEN in ELSE sentInputs[c][t]
      BY <1>6, ClientCaptureFacts
    <2>3. \A d \in Client : \A t \in Tick : sentInputs'[d][t] \in Captured(d, t)
      BY <2>2 DEF InputsOK, Captured
    <2>4. ASSUME NEW b \in batches', NEW t \in DOMAIN b.samples
          PROVE  b.samples[t] \in InputOf(b.slot, t)
      <3>1. CASE b \in batches
        BY <3>1 DEF InputsOK
      <3>2. CASE b \notin batches
        <4>1. /\ b.slot = c /\ t \in Tick
              /\ IF t = target THEN b.samples[t] = in
                 ELSE b.samples[t] = sentInputs[c][t] /\ sentInputs[c][t] # None
          BY <1>6, <3>2, ClientCaptureFacts
        <4> QED BY <2>2, <4>1 DEF InputsOK, Captured
      <3> QED BY <3>1, <3>2
    <2> QED BY <2>1, <2>3, <2>4 DEF InputsOK
  <1>7. ASSUME NEW c \in Client, IdleHeartbeat(c) PROVE InputsOK'
    <2>1. batches' = batches \cup {[slot |-> c, samples |-> << >>]}
      BY <1>7 DEF IdleHeartbeat, SendBatch
    <2>2. \A b \in batches' : \A t \in DOMAIN b.samples : b.samples[t] \in InputOf(b.slot, t)
      BY <2>1 DEF InputsOK
    <2> QED BY <1>7, <2>2 DEF IdleHeartbeat, InputsOK, hostVars, clientVars
  <1>8. CASE UNCHANGED <<log, readyTicks, hostInputs, sentInputs>> /\ batches' \subseteq batches
    BY <1>8 DEF InputsOK
  <1> QED
    BY <1>2, <1>3, <1>4, <1>5, <1>6, <1>7, <1>8
    DEF Next, vars, hostVars, clientVars, SubmitCommand, StallElapses, ClientReceive, EnterGameplay,
        ClientStep, LoseBatch

\* The host's capture clock stays within its lead.
LEMMA HostClockKept ==
  ASSUME TypeOK, ChannelOK, HostClock, [Next]_vars
  PROVE  HostClock'
  <1>1. nextEmit \in Nat /\ hostCapture \in Nat
    BY Numbers DEF TypeOK
  <1>2. CASE HostUpdate
    <2>1. PICK next \in nextEmit..(MaxTick + 1) :
             /\ \A t \in nextEmit..(next - 1) : t \in Tick /\ hostInputs[t] \in [Slot -> Input]
             /\ nextEmit' = next
             /\ hostInputs' = [t \in Tick |-> IF t < next THEN NoInputs ELSE hostInputs[t]]
      BY <1>2, HostUpdateFacts
    <2>2. hostCapture' = hostCapture
      BY <1>2 DEF HostUpdate
    <2>3. next <= hostCapture + InputDelay
      <3>1. CASE next = nextEmit
        BY <3>1 DEF HostClock
      <3>2. CASE next # nextEmit
        <4>1. next - 1 \in nextEmit..(next - 1)
          BY <1>1, <3>2
        <4>2. hostInputs[next - 1][Host] # None /\ next - 1 \in Tick
          BY <2>1, <4>1, Numbers, NoneAssumption
        <4> QED BY <1>1, <4>2, Numbers DEF HostClock
      <3> QED BY <3>1, <3>2
    <2>4. \A t \in Tick : hostInputs'[t][Host] # None => t < hostCapture + InputDelay
      BY <2>1, Numbers DEF HostClock, NoInputs
    <2> QED BY <1>1, <2>1, <2>2, <2>3, <2>4 DEF HostClock
  <1>3. ASSUME NEW b \in batches, HostReceive(b) PROVE HostClock'
    <2>1. UNCHANGED <<nextEmit, hostCapture>> /\ b.slot \in Client
      BY <1>3 DEF HostReceive, TypeOK
    <2>2. \A t \in Tick : hostInputs'[t][Host] = hostInputs[t][Host]
      BY <1>3, <2>1, ReceiveTable, Numbers
    <2> QED BY <2>1, <2>2 DEF HostClock
  <1>4. ASSUME NEW in \in Input, HostCapture(in) PROVE HostClock'
    <2>1. PICK at \in Nat :
             /\ at <= hostCapture /\ at <= nextEmit + 1 /\ (at = hostCapture \/ at = nextEmit + 1)
             /\ hostCapture' = at + 1
             /\ \A t \in Tick : \/ hostInputs'[t][Host] = hostInputs[t][Host]
                                \/ t = at + InputDelay
      BY <1>4, CaptureTable, Numbers
    <2>2. nextEmit' = nextEmit
      BY <1>4 DEF HostCapture
    <2>3. hostCapture <= at + 1
      BY <1>1, <2>1 DEF HostClock
    <2>4. \A t \in Tick : hostInputs'[t][Host] # None => t < hostCapture' + InputDelay
      BY <1>1, <2>1, <2>3, Numbers DEF HostClock
    <2> QED BY <1>1, <2>1, <2>2, <2>3, <2>4, Numbers DEF HostClock
  <1>5. CASE UNCHANGED <<nextEmit, hostCapture, hostInputs>>
    BY <1>5 DEF HostClock
  <1> QED
    BY <1>2, <1>3, <1>4, <1>5
    DEF Next, vars, hostVars, SubmitCommand, HostStep, StallElapses, ClientReceive, EnterGameplay,
        ClientCapture, ClientStep, IdleHeartbeat, LoseBatch

\* A client's clock stays right when its own state does not change.
LEMMA ClientClockStays ==
  ASSUME TypeOK, NEW c \in Client, ClientClock(c),
         UNCHANGED <<capture[c], nextConsume[c], sentInputs[c]>>,
         Len(log) \in Nat, Len(log') \in Nat, Len(log) <= Len(log'),
         nextEmit' <= capture[c] + InputDelay,
         \A t \in Tick : \/ hostInputs'[t][c] \in {None, hostInputs[t][c]}
                         \/ \E b \in batches : b.slot = c /\ t \in DOMAIN b.samples,
         \A b \in batches' : b \in batches \/ b.slot # c \/ DOMAIN b.samples = {}
  PROVE  ClientClock(c)'
  <1>1. nextConsume[c] \in Nat
    BY Numbers DEF TypeOK
  <1> QED BY <1>1 DEF ClientClock

\* A client's capture clock stays within its lead, and its next batch repairs what is missing.
LEMMA ClientClockKept ==
  ASSUME TypeOK, ChannelOK, OrderOK, InputsOK, NEW c \in Client, ClientClock(c), FramesOK(c), [Next]_vars
  PROVE  ClientClock(c)'
  <1>1. /\ nextEmit \in Nat /\ Len(log) \in Nat /\ Len(readyTicks) \in Nat
        /\ capture[c] \in Nat /\ nextConsume[c] \in Nat /\ c \in Slot
        /\ nextEmit <= capture[c] + InputDelay
    BY Numbers, LenProperties DEF TypeOK, ClientClock
  <1>2. CASE HostUpdate
    <2>1. PICK next \in nextEmit..(MaxTick + 1) :
             /\ \A t \in nextEmit..(next - 1) : t \in Tick /\ hostInputs[t] \in [Slot -> Input]
             /\ nextEmit' = next
             /\ hostInputs' = [t \in Tick |-> IF t < next THEN NoInputs ELSE hostInputs[t]]
      BY <1>2, HostUpdateFacts
    <2>2. UNCHANGED <<capture, nextConsume, sentInputs, log, batches>>
      BY <1>2 DEF HostUpdate, clientVars
    <2>3. next <= capture[c] + InputDelay
      <3>1. CASE next = nextEmit
        BY <1>1, <3>1
      <3>2. CASE next # nextEmit
        <4>1. next - 1 \in nextEmit..(next - 1)
          BY <1>1, <3>2
        <4>2. hostInputs[next - 1][c] # None /\ next - 1 \in Tick
          BY <1>1, <2>1, <4>1, NoneAssumption
        <4>3. next - 1 < capture[c] + InputDelay
          BY <4>2 DEF ClientClock
        <4>4. next \in Int /\ capture[c] + InputDelay \in Int
          BY <1>1, <2>1, Numbers
        <4> QED BY <4>3, <4>4
      <3> QED BY <3>1, <3>2
    <2>4. \A t \in Tick : hostInputs'[t][c] \in {None, hostInputs[t][c]}
      BY <1>1, <2>1 DEF NoInputs
    <2> QED BY <1>1, <2>1, <2>2, <2>3, <2>4, ClientClockStays
  <1>3. ASSUME NEW b \in batches, HostReceive(b) PROVE ClientClock(c)'
    <2>1. UNCHANGED <<nextEmit, capture, nextConsume, sentInputs, log>> /\ batches' \subseteq batches
      BY <1>3 DEF HostReceive, clientVars
    <2>2. \A t \in Tick : \/ hostInputs'[t][c] \in {None, hostInputs[t][c]}
                          \/ \E d \in batches : d.slot = c /\ t \in DOMAIN d.samples
      BY <1>1, <1>3, ReceiveTable
    <2> QED BY <1>1, <2>1, <2>2, ClientClockStays
  <1>4. ASSUME NEW in \in Input, HostCapture(in) PROVE ClientClock(c)'
    <2>1. UNCHANGED <<nextEmit, capture, nextConsume, sentInputs, log, batches>>
      BY <1>4 DEF HostCapture, clientVars
    <2>2. \A t \in Tick : hostInputs'[t][c] \in {None, hostInputs[t][c]}
      BY <1>1, <1>4, CaptureTable, Numbers
    <2> QED BY <1>1, <2>1, <2>2, ClientClockStays
  <1>5. CASE HostStep
    <2>1. UNCHANGED <<nextEmit, hostInputs, batches, capture, nextConsume, sentInputs>>
      BY <1>5 DEF HostStep, clientVars
    <2>2. Len(log') = Len(log) + 1
      BY <1>5, HostStepFacts
    <2> QED BY <1>1, <2>1, <2>2, ClientClockStays
  <1>6. ASSUME NEW d \in Client, NEW in \in Input, ClientCapture(d, in) PROVE ClientClock(c)'
    <2> PICK target : target = CaptureAt(d) + InputDelay
      OBVIOUS
    <2>1. UNCHANGED <<log, nextEmit, hostInputs, nextConsume>>
      BY <1>6 DEF ClientCapture, hostVars
    <2>2. /\ CaptureAt(d) \in Nat /\ CaptureAt(d) <= capture[d]
          /\ CaptureAt(d) <= nextConsume[d] + 1
          /\ CaptureAt(d) = capture[d] \/ CaptureAt(d) = nextConsume[d] + 1
          /\ target \in Tick /\ in # None
          /\ capture' = [capture EXCEPT ![d] = CaptureAt(d) + 1]
          /\ \A b \in batches' : \/ b \in batches
                                 \/ b.slot = d /\ \A t \in DOMAIN b.samples : t \in Tick /\ t <= target
          /\ \A e \in Client \ {d} : sentInputs'[e] = sentInputs[e]
          /\ \A t \in Tick : sentInputs'[d][t] =
               IF t < nextConsume[d] \/ t <= target - MaxHistory \/ t > target THEN None
               ELSE IF t = target THEN in ELSE sentInputs[d][t]
      BY <1>6, ClientCaptureFacts
    <2>3. CASE c # d
      <3>1. UNCHANGED <<capture[c], nextConsume[c], sentInputs[c]>>
        BY <2>1, <2>2, <2>3 DEF TypeOK
      <3>2. \A b \in batches' : b \in batches \/ b.slot # c \/ DOMAIN b.samples = {}
        BY <2>2, <2>3
      <3> QED BY <1>1, <2>1, <3>1, <3>2, ClientClockStays
    <2>4. CASE c = d
      <3>1. capture'[c] = CaptureAt(c) + 1 /\ capture[c] <= capture'[c]
            /\ capture'[c] <= nextConsume[c] + 2 /\ capture'[c] \in Nat
        BY <1>1, <2>2, <2>4 DEF ClientClock, TypeOK
      <3>2. nextEmit' <= capture'[c] + InputDelay
        BY <1>1, <2>1, <3>1, Numbers
      <3>3. \A t \in Tick : hostInputs'[t][c] # None => t < capture'[c] + InputDelay
        BY <1>1, <2>1, <3>1, Numbers DEF ClientClock
      <3> PICK at, old, new, eaten :
            /\ at = CaptureAt(c) /\ old = capture[c] /\ new = capture'[c] /\ eaten = nextConsume[c]
        OBVIOUS
      <3>0. /\ at \in Nat /\ old \in Nat /\ new \in Nat /\ eaten \in Nat /\ InputDelay \in Nat
            /\ MaxHistory \in Nat /\ InputDelay + 2 <= MaxHistory
            /\ target = at + InputDelay /\ new = at + 1 /\ old <= new /\ at <= eaten + 1
            /\ at <= old
            /\ \A t \in Tick : t \in Nat
            /\ old <= eaten + 2
        BY <1>1, <2>2, <2>4, <3>1, Numbers DEF ClientClock
      <3>4. ASSUME NEW b \in batches', b.slot = c, NEW t \in DOMAIN b.samples
            PROVE  t < new + InputDelay
        <4>1. t \in Nat
          <5>1. t \in Tick
            BY <1>1, <2>2, <3>4 DEF TypeOK
          <5> QED BY <5>1, <3>0
        <4>2. CASE b \in batches
          <5>1. t < old + InputDelay
            BY <3>4, <4>2 DEF ClientClock
          <5> QED BY <3>0, <4>1, <5>1
        <4>3. CASE b \notin batches
          <5>1. t <= target
            BY <2>2, <3>4, <4>3
          <5> QED BY <3>0, <4>1, <5>1
        <4> QED BY <4>2, <4>3
      <3>5. ASSUME NEW t \in Tick, InputDelay <= t, nextConsume[c] <= t, t < capture'[c] + InputDelay
            PROVE  sentInputs'[c][t] # None
        <4>1. t \in Nat /\ eaten <= t /\ t < new + InputDelay
          BY <3>0, <3>5
        <4>2. ~(t < eaten) /\ ~(t <= target - MaxHistory) /\ ~(t > target)
          BY <3>0, <4>1
        <4>3. sentInputs'[c][t] = IF t = target THEN in ELSE sentInputs[c][t]
          BY <2>2, <2>4, <4>2
        <4>4. CASE t = target
          BY <2>2, <4>3, <4>4
        <4>5. CASE t # target
          <5>1. t < old + InputDelay
            BY <3>0, <4>1, <4>5
          <5> QED BY <3>5, <4>3, <4>5, <5>1 DEF ClientClock
        <4> QED BY <4>4, <4>5
      <3>6. nextConsume'[c] = nextConsume[c] /\ log' = log /\ nextConsume[c] <= Len(log)
        BY <2>1 DEF ClientClock
      <3> QED BY <3>1, <3>2, <3>3, <3>4, <3>5, <3>6 DEF ClientClock
    <2> QED BY <2>3, <2>4
  <1>7. ASSUME NEW d \in Client, ClientStep(d) PROVE ClientClock(c)'
    <2>1. UNCHANGED <<log, nextEmit, hostInputs, capture, sentInputs, batches>>
          /\ nextConsume' = [nextConsume EXCEPT ![d] = nextConsume[d] + 1]
      BY <1>7 DEF ClientStep, hostVars
    <2>2. CASE c # d
      <3>1. nextConsume'[c] = nextConsume[c]
        BY <2>1, <2>2 DEF TypeOK
      <3> QED BY <1>1, <2>1, <3>1, ClientClockStays
    <2>3. CASE c = d
      <3>1. PICK f \in canonical[c] : f.tick = nextConsume[c]
        BY <1>7, <2>3 DEF ClientStep
      <3>2. nextConsume[c] + 1 <= Len(log)
        BY <1>1, <3>1 DEF FramesOK, InLog
      <3>3. nextConsume'[c] = nextConsume[c] + 1
        BY <2>1, <2>3 DEF TypeOK
      <3>4. \A t \in Tick : nextConsume[c] + 1 <= t => nextConsume[c] <= t
        BY <1>1, Numbers
      <3> QED BY <1>1, <2>1, <3>2, <3>3, <3>4 DEF ClientClock
    <2> QED BY <2>2, <2>3
  <1>8. ASSUME NEW d \in Client, IdleHeartbeat(d) PROVE ClientClock(c)'
    <2>1. batches' = batches \cup {[slot |-> d, samples |-> << >>]}
          /\ UNCHANGED <<log, nextEmit, hostInputs, nextConsume, capture, sentInputs>>
      BY <1>8 DEF IdleHeartbeat, SendBatch, hostVars, clientVars
    <2>2. \A b \in batches' : b \in batches \/ b.slot # c \/ DOMAIN b.samples = {}
      BY <2>1
    <2> QED BY <1>1, <2>1, <2>2, ClientClockStays
  <1>9. CASE /\ UNCHANGED <<log, nextEmit, hostInputs, nextConsume, capture, sentInputs>>
             /\ batches' \subseteq batches
    BY <1>1, <1>9, ClientClockStays
  <1> QED
    BY <1>2, <1>3, <1>4, <1>5, <1>6, <1>7, <1>8, <1>9
    DEF Next, vars, hostVars, clientVars, SubmitCommand, StallElapses, ClientReceive, EnterGameplay,
        LoseBatch

\* What the host puts at the end of every channel.
LEMMA BroadcastFacts ==
  ASSUME ChannelOK, NEW c \in Client, NEW m \in Message, channel' = Broadcast(m)
  PROVE  /\ Len(channel[c]) \in Nat /\ Len(channel'[c]) = Len(channel[c]) + 1
         /\ \A i \in 1..Len(channel[c]) : channel'[c][i] = channel[c][i]
         /\ channel'[c][Len(channel[c]) + 1] = m
  <1>1. channel[c] \in Seq(Message) /\ channel'[c] = Append(channel[c], m)
    BY DEF ChannelOK, Broadcast
  <1>2. Len(channel[c]) \in Nat
    BY <1>1, LenProperties
  <1>3. /\ Len(Append(channel[c], m)) = Len(channel[c]) + 1
        /\ \A i \in 1..Len(channel[c]) : Append(channel[c], m)[i] = channel[c][i]
        /\ Append(channel[c], m)[Len(channel[c]) + 1] = m
    BY <1>1, AppendProperties
  <1> QED BY <1>1, <1>2, <1>3

\* What a client holds, has been sent and has replayed stays what the log says.
LEMMA FramesKept ==
  ASSUME TypeOK, ChannelOK, OrderOK, NEW c \in Client, FramesOK(c), [Next]_vars
  PROVE  FramesOK(c)'
  <1>1. /\ Len(log) \in Nat /\ Len(channel[c]) \in Nat /\ channel[c] \in Seq(Message)
        /\ \A i \in 1..Len(channel[c]) : channel[c][i] \in Message
        /\ nextConsume[c] \in Nat
    BY LenProperties, ElementOfSeq, Numbers DEF TypeOK, ChannelOK
  <1>2. CASE HostUpdate
    <2>1. UNCHANGED <<log, nextConsume, replayed, canonical>>
      BY <1>2 DEF HostUpdate, clientVars
    <2>2. ASSUME NEW i \in 1..Len(channel'[c]), channel'[c][i].kind = "frame"
          PROVE  InLog(channel'[c][i].frame)
      <3> PICK m : m = PauseState(stalled /\ ~TickComplete(hostInputs, nextEmit))
        OBVIOUS
      <3>1. m \in Message /\ m.kind = "pause"
        BY MessageTypes
      <3>2. CASE channel' = channel
        BY <2>2, <3>2 DEF FramesOK
      <3>3. CASE channel' = Broadcast(m)
        <4>1. i \in 1..Len(channel[c]) /\ channel'[c][i] = channel[c][i]
          BY <1>1, <2>2, <3>1, <3>3, BroadcastFacts
        <4> QED BY <2>2, <4>1 DEF FramesOK
      <3> QED BY <1>2, <3>2, <3>3 DEF HostUpdate, PauseNotice
    <2> QED BY <2>1, <2>2 DEF FramesOK, InLog
  <1>3. CASE HostStep
    <2>1. /\ StepFrame \in AnyFrame /\ TickFrame(StepFrame) \in Message
          /\ Len(log') = Len(log) + 1 /\ \A i \in 1..Len(log) : log'[i] = log[i]
          /\ log'[Len(log) + 1] = StepFrame
          /\ channel' = Broadcast(TickFrame(StepFrame))
          /\ Len(readyTicks) \in Nat \ {0} /\ Head(readyTicks) = readyTicks[1]
      BY <1>3, HostStepFacts
    <2>2. UNCHANGED <<nextConsume, replayed, canonical>>
      BY <1>3 DEF HostStep, clientVars
    <2> DEFINE InNewLog(f) == (f.tick + 1) \in 1..Len(log') /\ f = log'[f.tick + 1]
    <2>3. \A f : InLog(f) => InNewLog(f)
      BY <1>1, <2>1 DEF InLog
    <2> PICK new : new = StepFrame
      OBVIOUS
    <2>4. InNewLog(new)
      <3>1. new.tick = Len(log)
        BY <1>1, <2>1 DEF StepFrame, OrderOK
      <3> QED BY <1>1, <2>1, <3>1
    <2> HIDE DEF InNewLog
    <2>5. ASSUME NEW i \in 1..Len(channel'[c]), channel'[c][i].kind = "frame"
          PROVE  InNewLog(channel'[c][i].frame)
      <3>1. CASE i \in 1..Len(channel[c])
        <4>1. channel'[c][i] = channel[c][i]
          BY <2>1, <3>1, BroadcastFacts
        <4>2. InLog(channel[c][i].frame)
          BY <2>5, <3>1, <4>1 DEF FramesOK
        <4> QED BY <2>3, <4>1, <4>2
      <3>2. CASE i = Len(channel[c]) + 1
        <4>1. channel'[c][i] = TickFrame(new)
          BY <2>1, <3>2, BroadcastFacts
        <4>2. channel'[c][i].frame = new
          BY <2>1, <4>1, MessageTypes
        <4> QED BY <2>4, <4>2
      <3> QED BY <1>1, <2>1, <3>1, <3>2, BroadcastFacts
    <2>6. \A f \in canonical'[c] : InNewLog(f)
      BY <2>2, <2>3 DEF FramesOK
    <2>7. Len(replayed'[c]) = nextConsume'[c]
      BY <2>2 DEF FramesOK
    <2> QED BY <2>5, <2>6, <2>7 DEF FramesOK, InLog, InNewLog
  <1>4. ASSUME NEW d \in Client, ClientReceive(d) PROVE FramesOK(c)'
    <2> PICK m : m = Head(channel[d])
      OBVIOUS
    <2>1. UNCHANGED <<log, nextConsume, replayed>>
      BY <1>4 DEF ClientReceive, hostVars
    <2>2. CASE c # d
      <3>1. channel'[c] = channel[c] /\ canonical'[c] = canonical[c]
        BY <1>4, <2>2, ClientReceiveFacts DEF ClientReceive, TypeOK
      <3> QED BY <2>1, <3>1 DEF FramesOK, InLog
    <2>3. CASE c = d
      <3>1. /\ m = channel[c][1] /\ Len(channel[c]) \in Nat \ {0}
            /\ Len(channel'[c]) = Len(channel[c]) - 1
            /\ \A i \in 1..Len(channel'[c]) : channel'[c][i] = channel[c][i + 1]
        BY <1>4, <2>3, ClientReceiveFacts
      <3>2. \A i \in 1..Len(channel'[c]) : channel'[c][i].kind = "frame" => InLog(channel'[c][i].frame)
        <4> SUFFICES ASSUME NEW i \in 1..Len(channel'[c])
                     PROVE  channel'[c][i].kind = "frame" => InLog(channel'[c][i].frame)
          OBVIOUS
        <4>1. i + 1 \in 1..Len(channel[c]) /\ channel'[c][i] = channel[c][i + 1]
          BY <3>1
        <4> QED BY <4>1 DEF FramesOK
      <3>3. \A f \in canonical'[c] : InLog(f)
        <4>1. CASE m.kind = "frame"
          <5>1. canonical'[c] \subseteq canonical[c] \cup {m.frame}
            BY <1>4, <2>3, <4>1 DEF ClientReceive, TypeOK
          <5>2. InLog(m.frame)
            BY <3>1, <4>1 DEF FramesOK
          <5> QED BY <5>1, <5>2 DEF FramesOK
        <4>2. CASE m.kind # "frame"
          <5>1. canonical' = canonical
            BY <1>4, <2>3, <4>2 DEF ClientReceive
          <5> QED BY <5>1 DEF FramesOK
        <4> QED BY <4>1, <4>2
      <3> QED BY <2>1, <3>2, <3>3 DEF FramesOK, InLog
    <2> QED BY <2>2, <2>3
  <1>5. ASSUME NEW d \in Client, ClientStep(d) PROVE FramesOK(c)'
    <2>1. UNCHANGED <<log, channel>>
      BY <1>5 DEF ClientStep, hostVars
    <2>2. PICK f \in canonical[d] : /\ canonical' = [canonical EXCEPT ![d] = @ \ {f}]
                                    /\ replayed' = [replayed EXCEPT ![d] = Append(@, f)]
      BY <1>5 DEF ClientStep
    <2>3. f \in AnyFrame /\ nextConsume' = [nextConsume EXCEPT ![d] = nextConsume[d] + 1]
      BY <1>5 DEF TypeOK, ClientStep
    <2>4. canonical'[c] \subseteq canonical[c]
      BY <2>2 DEF TypeOK
    <2>5. Len(replayed'[c]) = nextConsume'[c]
      <3>1. CASE c = d
        <4>1. replayed[c] \in Seq(AnyFrame) /\ replayed'[c] = Append(replayed[c], f)
          BY <2>2, <3>1 DEF TypeOK
        <4>2. Len(Append(replayed[c], f)) = Len(replayed[c]) + 1
          BY <2>3, <4>1, AppendProperties
        <4>3. nextConsume'[c] = nextConsume[c] + 1
          BY <2>3, <3>1 DEF TypeOK
        <4> QED BY <4>1, <4>2, <4>3 DEF FramesOK
      <3>2. CASE c # d
        BY <2>2, <2>3, <3>2 DEF FramesOK, TypeOK
      <3> QED BY <3>1, <3>2
    <2> QED BY <2>1, <2>4, <2>5 DEF FramesOK, InLog
  <1>6. CASE UNCHANGED <<log, nextConsume, replayed, canonical, channel>>
    BY <1>6 DEF FramesOK, InLog
  <1> QED
    BY <1>2, <1>3, <1>4, <1>5, <1>6
    DEF Next, vars, hostVars, clientVars, HostReceive, HostCapture, SubmitCommand, StallElapses,
        EnterGameplay, ClientCapture, IdleHeartbeat, LoseBatch

\* The last pause state a client was sent stays the host's.
LEMMA PauseKept ==
  ASSUME TypeOK, ChannelOK, NEW c \in Client, PauseOK(c), [Next]_vars
  PROVE  PauseOK(c)'
  <1>1. /\ Len(channel[c]) \in Nat /\ paused \in BOOLEAN /\ clientPause[c] \in BOOLEAN
    BY LenProperties DEF TypeOK, ChannelOK
  <1>2. CASE HostUpdate
    <2> PICK p : p = (stalled /\ ~TickComplete(hostInputs, nextEmit))
      OBVIOUS
    <2>1. p \in BOOLEAN /\ paused' = p /\ UNCHANGED clientPause
      BY <1>2 DEF HostUpdate, clientVars
    <2>2. CASE p = paused
      <3>1. UNCHANGED <<paused, channel, clientPause>>
        BY <1>2, <2>1, <2>2 DEF HostUpdate, PauseNotice
      <3> QED BY <3>1 DEF PauseOK
    <2>3. CASE p # paused
      <3> PICK m : m = PauseState(p)
        OBVIOUS
      <3>1. channel' = Broadcast(m)
        BY <1>2, <2>3 DEF HostUpdate, PauseNotice
      <3>2. m \in Message /\ m.kind = "pause" /\ m.paused = p
        BY <2>1, MessageTypes
      <3>3. /\ Len(channel'[c]) = Len(channel[c]) + 1
            /\ channel'[c][Len(channel[c]) + 1] = m
        BY <3>1, <3>2, BroadcastFacts
      <3> PICK l : l = Len(channel[c]) + 1
        OBVIOUS
      <3>4. /\ l \in 1..Len(channel'[c]) /\ channel'[c][l].kind = "pause"
            /\ channel'[c][l].paused = paused' /\ \A j \in 1..Len(channel'[c]) : j <= l
        BY <1>1, <2>1, <3>2, <3>3
      <3> QED BY <3>4 DEF PauseOK
    <2> QED BY <2>2, <2>3
  <1>3. CASE HostStep
    <2>1. /\ TickFrame(StepFrame) \in Message /\ TickFrame(StepFrame).kind = "frame"
          /\ channel' = Broadcast(TickFrame(StepFrame))
      BY <1>3, HostStepFacts, MessageTypes
    <2>2. UNCHANGED <<paused, clientPause>>
      BY <1>3 DEF HostStep, clientVars
    <2>3. /\ Len(channel'[c]) = Len(channel[c]) + 1
          /\ \A i \in 1..Len(channel[c]) : channel'[c][i] = channel[c][i]
          /\ channel'[c][Len(channel[c]) + 1].kind = "frame"
      BY <2>1, BroadcastFacts
    <2>4. \A i \in 1..Len(channel'[c]) : channel'[c][i].kind = "pause" =>
            i \in 1..Len(channel[c]) /\ channel[c][i].kind = "pause"
      BY <1>1, <2>3
    <2>5. CASE /\ clientPause[c] = paused
               /\ \A i \in 1..Len(channel[c]) : channel[c][i].kind # "pause"
      BY <2>2, <2>4, <2>5 DEF PauseOK
    <2>6. ASSUME NEW l \in 1..Len(channel[c]), channel[c][l].kind = "pause",
                 channel[c][l].paused = paused,
                 \A j \in 1..Len(channel[c]) : channel[c][j].kind = "pause" => j <= l
          PROVE  PauseOK(c)'
      <3>1. l \in 1..Len(channel'[c]) /\ channel'[c][l] = channel[c][l]
        BY <1>1, <2>3
      <3> QED BY <2>2, <2>4, <2>6, <3>1 DEF PauseOK
    <2> QED BY <2>5, <2>6 DEF PauseOK
  <1>4. ASSUME NEW d \in Client, ClientReceive(d) PROVE PauseOK(c)'
    <2> PICK m : m = Head(channel[d])
      OBVIOUS
    <2>1. paused' = paused
      BY <1>4 DEF ClientReceive, hostVars
    <2>2. CASE c # d
      <3>1. channel'[c] = channel[c] /\ clientPause'[c] = clientPause[c]
        BY <1>4, <2>2, ClientReceiveFacts DEF ClientReceive, TypeOK
      <3> QED BY <2>1, <3>1 DEF PauseOK
    <2>3. CASE c = d
      <3>1. /\ m = channel[c][1] /\ Len(channel[c]) \in Nat \ {0}
            /\ Len(channel'[c]) = Len(channel[c]) - 1
            /\ \A i \in 1..Len(channel'[c]) : channel'[c][i] = channel[c][i + 1]
        BY <1>4, <2>3, ClientReceiveFacts
      <3>2. /\ m.kind = "pause" => clientPause'[c] = m.paused
            /\ m.kind # "pause" => clientPause'[c] = clientPause[c]
        BY <1>4, <2>3 DEF ClientReceive, TypeOK
      <3>3. \A i \in 1..Len(channel'[c]) : i + 1 \in 1..Len(channel[c])
        BY <3>1
      <3>4. CASE /\ clientPause[c] = paused
                 /\ \A i \in 1..Len(channel[c]) : channel[c][i].kind # "pause"
        <4>1. m.kind # "pause" /\ \A i \in 1..Len(channel'[c]) : channel'[c][i].kind # "pause"
          BY <3>1, <3>3, <3>4
        <4> QED BY <2>1, <3>2, <3>4, <4>1 DEF PauseOK
      <3>5. ASSUME NEW l \in 1..Len(channel[c]), channel[c][l].kind = "pause",
                   channel[c][l].paused = paused,
                   \A j \in 1..Len(channel[c]) : channel[c][j].kind = "pause" => j <= l
            PROVE  PauseOK(c)'
        <4>1. \A i \in 1..Len(channel'[c]) : channel'[c][i].kind = "pause" => i + 1 <= l
          BY <3>1, <3>3, <3>5
        <4>2. CASE l = 1
          <5>1. clientPause'[c] = paused
            BY <3>1, <3>2, <3>5, <4>2
          <5>2. \A i \in 1..Len(channel'[c]) : channel'[c][i].kind # "pause"
            BY <4>1, <4>2
          <5> QED BY <2>1, <5>1, <5>2 DEF PauseOK
        <4>3. CASE l # 1
          <5> PICK k : k = l - 1
            OBVIOUS
          <5>1. k \in 1..Len(channel'[c]) /\ channel'[c][k] = channel[c][l]
            BY <3>1, <4>3
          <5>2. \A j \in 1..Len(channel'[c]) : channel'[c][j].kind = "pause" => j <= k
            BY <3>1, <4>1
          <5> QED BY <2>1, <3>5, <5>1, <5>2 DEF PauseOK
        <4> QED BY <4>2, <4>3
      <3> QED BY <3>4, <3>5 DEF PauseOK
    <2> QED BY <2>2, <2>3
  <1>5. CASE UNCHANGED <<paused, clientPause, channel>>
    BY <1>5 DEF PauseOK
  <1> QED
    BY <1>2, <1>3, <1>4, <1>5
    DEF Next, vars, hostVars, clientVars, HostReceive, HostCapture, SubmitCommand, StallElapses,
        EnterGameplay, ClientCapture, ClientStep, IdleHeartbeat, LoseBatch

\* Every submitted command stays in exactly one place, queued or logged.
LEMMA CommandsKept ==
  ASSUME TypeOK, ChannelOK, CommandsOK, [Next]_vars
  PROVE  CommandsOK'
  <1>1. /\ Len(log) \in Nat /\ Len(commands) \in Nat /\ submitted \in Nat
        /\ \A j \in 1..Len(commands) : commands[j] \in Nat
    BY LenProperties, ElementOfSeq, Numbers DEF TypeOK, Command
  \* What the invariant says.
  <1>a. \A j \in 1..Len(commands) : commands[j] <= submitted
    BY DEF CommandsOK
  <1>b. \A i, j \in 1..Len(commands) : commands[i] = commands[j] => i = j
    BY DEF CommandsOK
  <1>c. \A i \in 1..Len(log) : \A k : Carries(log[i], k) => k \in Nat /\ k <= submitted
    <2> SUFFICES ASSUME NEW i \in 1..Len(log), NEW k, Carries(log[i], k) PROVE k \in Nat
      BY DEF CommandsOK
    <2>1. log[i] \in AnyFrame
      BY ElementOfSeq DEF TypeOK
    <2>2. log[i].commands \in Seq(Command)
      BY <2>1 DEF AnyFrame
    <2> QED BY <2>2, ElementOfSeq, Numbers DEF Carries, Command
  <1>d. \A i, j \in 1..Len(log) : \A k : Carries(log[i], k) /\ Carries(log[j], k) => i = j
    BY DEF CommandsOK
  <1>e. \A i \in 1..Len(log) : \A j \in 1..Len(commands) : ~Carries(log[i], commands[j])
    BY DEF CommandsOK
  <1>f. \A k \in 1..submitted : \/ \E j \in 1..Len(commands) : commands[j] = k
                               \/ \E i \in 1..Len(log) : Carries(log[i], k)
    BY DEF CommandsOK
  <1>2. CASE SubmitCommand
    <2>1. /\ submitted' = submitted + 1 /\ log' = log /\ submitted + 1 \in Command
          /\ commands' = Append(commands, submitted + 1) /\ commands \in Seq(Command)
      BY <1>2, Numbers DEF SubmitCommand, TypeOK, Command
    <2>2. /\ Len(commands') = Len(commands) + 1
          /\ \A j \in 1..Len(commands) : commands'[j] = commands[j]
          /\ commands'[Len(commands) + 1] = submitted + 1
      BY <2>1, AppendProperties
    <2>3. \A j \in 1..Len(commands') : \/ j \in 1..Len(commands) /\ commands'[j] = commands[j]
                                       \/ j = Len(commands) + 1 /\ commands'[j] = submitted + 1
      BY <1>1, <2>2
    <2>4. \A j \in 1..Len(commands') : commands'[j] <= submitted'
      BY <1>1, <1>a, <2>1, <2>3
    <2>5. \A i, j \in 1..Len(commands') : commands'[i] = commands'[j] => i = j
      BY <1>1, <1>a, <1>b, <2>3
    <2>6. \A i \in 1..Len(log) : \A k : Carries(log[i], k) => k # submitted + 1 /\ k <= submitted'
      <3> SUFFICES ASSUME NEW i \in 1..Len(log), NEW k, Carries(log[i], k)
                   PROVE  k # submitted + 1 /\ k <= submitted'
        OBVIOUS
      <3>1. k \in Nat /\ k <= submitted
        BY <1>c
      <3> QED BY <1>1, <2>1, <3>1
    <2>7. \A i \in 1..Len(log) : \A j \in 1..Len(commands') : ~Carries(log[i], commands'[j])
      <3> SUFFICES ASSUME NEW i \in 1..Len(log), NEW j \in 1..Len(commands')
                   PROVE  ~Carries(log[i], commands'[j])
        OBVIOUS
      <3>1. CASE j \in 1..Len(commands) /\ commands'[j] = commands[j]
        BY <1>e, <3>1
      <3>2. CASE commands'[j] = submitted + 1
        BY <2>6, <3>2
      <3> QED BY <2>3, <3>1, <3>2
    <2>8. \A k \in 1..submitted' : \/ \E j \in 1..Len(commands') : commands'[j] = k
                                   \/ \E i \in 1..Len(log) : Carries(log[i], k)
      <3> SUFFICES ASSUME NEW k \in 1..submitted'
                   PROVE  \/ \E j \in 1..Len(commands') : commands'[j] = k
                          \/ \E i \in 1..Len(log) : Carries(log[i], k)
        OBVIOUS
      <3>1. CASE k \in 1..submitted
        <4>1. ASSUME NEW j \in 1..Len(commands), commands[j] = k
              PROVE  j \in 1..Len(commands') /\ commands'[j] = k
          BY <1>1, <2>2, <4>1
        <4> QED BY <1>f, <3>1, <4>1
      <3>2. CASE k = submitted + 1
        BY <1>1, <2>2, <3>2
      <3> QED BY <1>1, <2>1, <3>1, <3>2
    <2>9. log' = log
      BY <2>1
    <2> QED BY <1>d, <2>4, <2>5, <2>6, <2>7, <2>8, <2>9 DEF CommandsOK
  <1>3. CASE HostStep
    <2> PICK f : f = StepFrame
      OBVIOUS
    <2>1. /\ Len(log') = Len(log) + 1 /\ \A i \in 1..Len(log) : log'[i] = log[i]
          /\ log'[Len(log) + 1] = f /\ f.commands = commands
          /\ Len(commands') = 0 /\ submitted' = submitted
      BY <1>3, HostStepFacts, EmptySeq DEF StepFrame
    <2>2. \A k : Carries(f, k) <=> \E j \in 1..Len(commands) : commands[j] = k
      BY <2>1 DEF Carries
    <2>3. \A i \in 1..Len(log') : \/ i \in 1..Len(log) /\ log'[i] = log[i]
                                  \/ i = Len(log) + 1 /\ log'[i] = f
      BY <1>1, <2>1
    <2>4. \A i \in 1..Len(log') : \A k : Carries(log'[i], k) => k <= submitted'
      <3> SUFFICES ASSUME NEW i \in 1..Len(log'), NEW k, Carries(log'[i], k) PROVE k <= submitted
        BY <2>1
      <3>1. CASE i \in 1..Len(log) /\ log'[i] = log[i]
        BY <1>c, <3>1
      <3>2. CASE log'[i] = f
        BY <1>a, <2>2, <3>2
      <3> QED BY <2>3, <3>1, <3>2
    <2>5. \A i \in 1..Len(log) : \A k : ~(Carries(log[i], k) /\ Carries(f, k))
      BY <1>e, <2>2
    <2>6. \A i, j \in 1..Len(log') : \A k : Carries(log'[i], k) /\ Carries(log'[j], k) => i = j
      <3> SUFFICES ASSUME NEW i \in 1..Len(log'), NEW j \in 1..Len(log'), NEW k,
                          Carries(log'[i], k), Carries(log'[j], k)
                   PROVE  i = j
        OBVIOUS
      <3> DEFINE Old(n) == n \in 1..Len(log) /\ log'[n] = log[n]
                 New(n) == n = Len(log) + 1 /\ log'[n] = f
      <3>1. (Old(i) \/ New(i)) /\ (Old(j) \/ New(j))
        BY <2>3
      <3>2. CASE Old(i) /\ Old(j)
        BY <1>d, <3>2
      <3>3. CASE New(i) /\ New(j)
        BY <3>3
      <3>4. CASE Old(i) /\ New(j)
        BY <2>5, <3>4
      <3>5. CASE New(i) /\ Old(j)
        BY <2>5, <3>5
      <3> QED BY <3>1, <3>2, <3>3, <3>4, <3>5
    <2>7. \A k \in 1..submitted' : \E i \in 1..Len(log') : Carries(log'[i], k)
      <3> SUFFICES ASSUME NEW k \in 1..submitted PROVE \E i \in 1..Len(log') : Carries(log'[i], k)
        BY <2>1
      <3>1. CASE \E j \in 1..Len(commands) : commands[j] = k
        <4>1. Len(log) + 1 \in 1..Len(log') /\ Carries(log'[Len(log) + 1], k)
          BY <1>1, <2>1, <2>2, <3>1
        <4> QED BY <4>1
      <3>2. CASE \E i \in 1..Len(log) : Carries(log[i], k)
        <4>1. PICK i \in 1..Len(log) : Carries(log[i], k)
          BY <3>2
        <4>2. i \in 1..Len(log') /\ Carries(log'[i], k)
          BY <1>1, <2>1, <4>1
        <4> QED BY <4>2
      <3> QED BY <1>f, <3>1, <3>2
    <2>8. \A j \in 1..Len(commands') : FALSE
      BY <2>1
    <2> QED BY <2>4, <2>6, <2>7, <2>8 DEF CommandsOK
  <1>4. CASE UNCHANGED <<log, commands, submitted>>
    <2>1. log' = log /\ commands' = commands /\ submitted' = submitted
      BY <1>4
    <2> QED BY <1>a, <1>b, <1>c, <1>d, <1>e, <1>f, <2>1 DEF CommandsOK
  <1> QED
    BY <1>2, <1>3, <1>4
    DEF Next, vars, hostVars, clientVars, HostUpdate, HostReceive, HostCapture, StallElapses,
        ClientReceive, EnterGameplay, ClientCapture, ClientStep, IdleHeartbeat, LoseBatch

\* Every step keeps the inductive invariant.
LEMMA NextIInv == IInv /\ [Next]_vars => IInv'
  <1> SUFFICES ASSUME IInv, [Next]_vars PROVE IInv'
    OBVIOUS
  <1>1. /\ TypeOK /\ ChannelOK /\ OrderOK /\ InputsOK /\ HostClock /\ CommandsOK
        /\ \A c \in Client : ClientClock(c) /\ FramesOK(c) /\ PauseOK(c)
    BY DEF IInv
  <1>2. TypeOK' /\ ChannelOK'
    BY <1>1, NextType
  <1>3. OrderOK' /\ InputsOK' /\ HostClock' /\ CommandsOK'
    BY <1>1, OrderKept, InputsKept, HostClockKept, CommandsKept
  <1>4. ASSUME NEW c \in Client PROVE (ClientClock(c) /\ FramesOK(c) /\ PauseOK(c))'
    BY <1>1, ClientClockKept, FramesKept, PauseKept
  <1> QED BY <1>2, <1>3, <1>4 DEF IInv

\* The inductive invariant holds in every reachable state of a match, whatever
\* batches are lost, repeated or reordered and in whatever order the peers step.
THEOREM Inductive == Spec => []IInv
  BY InitIInv, NextIInv, PTL DEF Spec

-----------------------------------------------------------------------------
(* What follows from it.                                                   *)

\* Every variable has its type.
THEOREM TypeCorrect == Spec => []TypeOK
  <1>1. IInv => TypeOK
    BY DEF IInv
  <1> QED BY <1>1, Inductive, PTL

\* Every tick is simulated from inputs each of which its own player captured for
\* that very tick, whatever batches were lost, duplicated or reordered.
THEOREM InputsAreAuthentic == Spec => []InputsAuthentic
  <1>1. IInv => InputsAuthentic
    <2> SUFFICES ASSUME IInv PROVE InputsAuthentic
      OBVIOUS
    <2>1. DOMAIN readyTicks = 1..Len(readyTicks) /\ DOMAIN log = 1..Len(log)
      BY LenProperties DEF IInv, TypeOK
    <2> QED BY <2>1 DEF IInv, InputsOK, InputsAuthentic
  <1> QED BY <1>1, Inductive, PTL

\* The capture clocks stay within their windows: the host's table of inputs is
\* bounded, and no tick is left without an input.
THEOREM CapturesInWindow == Spec => []CaptureWindow
  <1>1. IInv => CaptureWindow
    <2> SUFFICES ASSUME IInv PROVE CaptureWindow
      OBVIOUS
    <2>1. /\ TypeOK /\ OrderOK /\ HostClock /\ \A c \in Client : ClientClock(c)
      BY DEF IInv
    <2>2. /\ nextEmit \in Nat /\ hostCapture \in Nat /\ Len(log) \in Nat /\ Len(readyTicks) \in Nat
          /\ Len(log) <= nextEmit
      BY <2>1, Numbers, LenProperties DEF TypeOK, OrderOK
    <2>3. ASSUME NEW c \in Client
          PROVE  /\ capture[c] \in Nat /\ nextConsume[c] \in Nat
                 /\ capture[c] <= nextEmit + 2
                 /\ CaptureAt(c) + InputDelay >= nextConsume[c]
      <3>1. /\ capture[c] \in Nat /\ nextConsume[c] \in Nat
            /\ nextConsume[c] <= Len(log) /\ nextEmit <= capture[c] + InputDelay
            /\ capture[c] <= nextConsume[c] + 2
        BY <2>1, Numbers DEF TypeOK, ClientClock
      <3>2. CaptureAt(c) = capture[c] \/ CaptureAt(c) = nextConsume[c] + 1
        BY DEF CaptureAt, MinOf, ClientCaptureLead
      <3> QED BY <2>2, <3>1, <3>2, Numbers
    <2>4. ASSUME NEW t \in Tick, hostInputs[t] # NoInputs
          PROVE  t \in nextEmit..(nextEmit + InputDelay + 1)
      <3>1. t \in Nat /\ t >= nextEmit
        BY <2>1, <2>2, <2>4, Numbers DEF OrderOK
      <3>2. PICK s \in Slot : hostInputs[t][s] # None
        <4>1. hostInputs[t] \in [Slot -> Known] /\ NoInputs \in [Slot -> Known]
          BY <2>1 DEF TypeOK, NoInputs, Known
        <4> QED BY <2>4, <4>1 DEF NoInputs
      <3>3. CASE s = Host
        <4>1. t < hostCapture + InputDelay /\ hostCapture <= nextEmit + 2
          BY <2>1, <3>2, <3>3 DEF HostClock
        <4> QED BY <2>2, <3>1, <4>1, Numbers
      <3>4. CASE s # Host
        <4>1. s \in Client
          BY <3>4 DEF Client
        <4>2. t < capture[s] + InputDelay
          BY <2>1, <3>2, <4>1 DEF ClientClock
        <4> QED BY <2>2, <2>3, <3>1, <4>1, <4>2, Numbers
      <3> QED BY <3>3, <3>4
    <2>5. nextEmit <= hostCapture + InputDelay
      BY <2>1 DEF HostClock
    <2> QED BY <2>3, <2>4, <2>5 DEF CaptureWindow
  <1> QED BY <1>1, Inductive, PTL

\* Clients learn every change of the host's pause.
THEOREM PausesAgree == Spec => []PauseAgreement
  <1>1. IInv => PauseAgreement
    <2> SUFFICES ASSUME IInv, NEW c \in Client
                 PROVE  LET pauses == {i \in DOMAIN channel[c] : channel[c][i].kind = "pause"}
                        IN IF pauses = {} THEN clientPause[c] = paused
                           ELSE channel[c][CHOOSE i \in pauses : \A j \in pauses : j <= i].paused
                                  = paused
      BY DEF PauseAgreement
    <2>1. DOMAIN channel[c] = 1..Len(channel[c]) /\ Len(channel[c]) \in Nat /\ PauseOK(c)
      BY LenProperties DEF IInv, ChannelOK
    <2> DEFINE pauses == {i \in DOMAIN channel[c] : channel[c][i].kind = "pause"}
               last == CHOOSE i \in pauses : \A j \in pauses : j <= i
    <2>2. CASE /\ clientPause[c] = paused
               /\ \A i \in 1..Len(channel[c]) : channel[c][i].kind # "pause"
      <3>1. pauses = {}
        BY <2>1, <2>2
      <3> QED BY <2>2, <3>1
    <2>3. ASSUME NEW l \in 1..Len(channel[c]), channel[c][l].kind = "pause",
                 channel[c][l].paused = paused,
                 \A j \in 1..Len(channel[c]) : channel[c][j].kind = "pause" => j <= l
          PROVE  pauses # {} /\ channel[c][last].paused = paused
      <3>1. l \in pauses /\ \A j \in pauses : j <= l
        BY <2>1, <2>3
      <3>2. pauses \subseteq Nat
        BY <2>1
      <3> HIDE DEF pauses
      <3>3. last \in pauses /\ \A j \in pauses : j <= last
        BY <3>1
      <3> HIDE DEF last
      <3>4. last = l
        BY <3>1, <3>2, <3>3
      <3> QED BY <2>3, <3>1, <3>4
    <2> QED BY <2>1, <2>2, <2>3 DEF PauseOK
  <1> QED BY <1>1, Inductive, PTL

\* The host can always be unblocked: the next batch of a client repeats every input
\* that the host still waits for and that has been captured.
THEOREM InputsRepairable == Spec => []MissingInputRepairable
  <1>1. IInv => MissingInputRepairable
    <2> SUFFICES ASSUME IInv, NEW c \in Client, NEW t \in Tick, t >= nextEmit,
                        t < capture[c] + InputDelay
                 PROVE  t \in BatchTicks(c, {u \in Tick : sentInputs[c][u] # None},
                                         CaptureAt(c) + InputDelay)
      BY DEF MissingInputRepairable
    <2>1. TypeOK /\ OrderOK /\ ClientClock(c)
      BY DEF IInv
    <2> PICK at, eaten, own : at = CaptureAt(c) /\ eaten = nextConsume[c] /\ own = capture[c]
      OBVIOUS
    <2>2. /\ at \in Nat /\ eaten \in Nat /\ own \in Nat /\ t \in Nat /\ nextEmit \in Nat
          /\ InputDelay \in Nat /\ MaxHistory \in Nat /\ MaxResend \in Nat
          /\ InputDelay + 2 <= MaxHistory /\ InputDelay + 2 <= MaxResend
          /\ at = own \/ at = eaten + 1
          /\ at <= eaten + 1 /\ at <= own /\ own <= eaten + 2
          /\ eaten <= nextEmit /\ InputDelay <= nextEmit
      <3>1. own \in Nat /\ eaten \in Nat /\ nextEmit \in Nat /\ Len(log) \in Nat /\ Len(readyTicks) \in Nat
        BY <2>1, Numbers, LenProperties DEF TypeOK
      <3>2. at \in Nat /\ (at = own \/ at = eaten + 1) /\ at <= eaten + 1 /\ at <= own
        BY <3>1 DEF CaptureAt, MinOf, ClientCaptureLead
      <3> QED BY <2>1, <3>1, <3>2, Numbers DEF OrderOK, ClientClock
    <2> DEFINE target == at + InputDelay
               eligible == {u \in {v \in Tick : sentInputs[c][v] # None} :
                              u <= target /\ u >= eaten /\ u > target - MaxHistory}
               newer == {u \in eligible : u > t}
    <2>3. t <= target /\ t >= eaten /\ t > target - MaxHistory
      BY <2>2
    <2>4. sentInputs[c][t] # None
      BY <2>1, <2>2 DEF ClientClock
    <2>5. t \in eligible
      BY <2>3, <2>4
    <2>6. Cardinality(newer) < MaxResend
      <3>1. newer \subseteq (t + 1)..target
        BY <2>2, Numbers
      <3>2. t + 1 \in Int /\ target \in Int
        BY <2>2
      <3>3. /\ IsFiniteSet((t + 1)..target)
            /\ Cardinality((t + 1)..target) = IF t + 1 > target THEN 0 ELSE target - (t + 1) + 1
        BY <3>2, FS_Interval
      <3>4. IsFiniteSet(newer) /\ Cardinality(newer) <= Cardinality((t + 1)..target)
        BY <3>1, <3>3, FS_Subset
      <3>5. Cardinality(newer) \in Nat
        BY <3>4, FS_CardinalityType
      <3> HIDE DEF newer
      <3> QED BY <2>2, <3>3, <3>4, <3>5
    <2> QED BY <2>5, <2>6 DEF BatchTicks
  <1> QED BY <1>1, Inductive, PTL

\* Every command the host's player submitted is simulated in exactly one tick.
THEOREM CommandsPlayedOnce == Spec => []CommandsOnce
  <1>1. IInv => CommandsOnce
    <2> SUFFICES ASSUME IInv, NEW k \in 1..submitted
                 PROVE  Cardinality({i \in DOMAIN log :
                                       \E j \in DOMAIN log[i].commands : log[i].commands[j] = k})
                          + Cardinality({j \in DOMAIN commands : commands[j] = k}) = 1
      BY DEF CommandsOnce
    <2>1. TypeOK /\ CommandsOK
      BY DEF IInv
    <2>2. DOMAIN log = 1..Len(log) /\ DOMAIN commands = 1..Len(commands)
      BY <2>1, LenProperties DEF TypeOK
    <2>3. \A i \in 1..Len(log) :
            (\E j \in DOMAIN log[i].commands : log[i].commands[j] = k) <=> Carries(log[i], k)
      <3> SUFFICES ASSUME NEW i \in 1..Len(log)
                   PROVE  DOMAIN log[i].commands = 1..Len(log[i].commands)
        BY DEF Carries
      <3>1. log[i] \in AnyFrame
        BY <2>1, ElementOfSeq DEF TypeOK
      <3>2. log[i].commands \in Seq(Command)
        BY <3>1 DEF AnyFrame
      <3> QED BY <3>2, LenProperties
    <2> DEFINE played == {i \in 1..Len(log) : Carries(log[i], k)}
               pending == {j \in 1..Len(commands) : commands[j] = k}
    <2>4. SUFFICES Cardinality(played) + Cardinality(pending) = 1
      <3>1. /\ {i \in DOMAIN log : \E j \in DOMAIN log[i].commands : log[i].commands[j] = k} = played
            /\ {j \in DOMAIN commands : commands[j] = k} = pending
        BY <2>2, <2>3
      <3> QED BY <3>1
    <2>5. CASE pending # {}
      <3>1. PICK j \in 1..Len(commands) : commands[j] = k
        BY <2>5
      <3>2. pending = {j}
        BY <2>1, <3>1 DEF CommandsOK
      <3>3. played = {}
        BY <2>1, <3>1 DEF CommandsOK
      <3>4. Cardinality(pending) = 1
        BY <3>2, FS_Singleton
      <3>5. Cardinality(played) = 0
        BY <3>3, FS_EmptySet
      <3> QED BY <3>4, <3>5
    <2>6. CASE pending = {}
      <3>1. PICK i \in 1..Len(log) : Carries(log[i], k)
        BY <2>1, <2>6 DEF CommandsOK
      <3>2. played = {i}
        BY <2>1, <3>1 DEF CommandsOK
      <3>3. Cardinality(played) = 1
        BY <3>2, FS_Singleton
      <3>4. Cardinality(pending) = 0
        BY <2>6, FS_EmptySet
      <3> QED BY <3>3, <3>4
    <2> QED BY <2>5, <2>6
  <1> QED BY <1>1, Inductive, PTL

\* The match implements its abstract specification: one log of ticks, which every
\* client replays in order, without gaps and without another version of a tick.
THEOREM ImplementsTickLog == Spec => LogSpec
  <1>1. Init => Log!Init
    BY DEF Init, Log!Init
  <1>2. IInv /\ [Next]_vars => [Log!Next]_<<log, replayed>>
    <2> SUFFICES ASSUME IInv, [Next]_vars, ~ UNCHANGED <<log, replayed>>
                 PROVE  Log!Next
      OBVIOUS
    <2>1. CASE HostStep
      <3>1. /\ TypeOK /\ ChannelOK /\ OrderOK
        BY DEF IInv
      <3>2. /\ StepFrame \in AnyFrame /\ log' \in Seq(AnyFrame)
            /\ Len(log) \in Nat /\ Len(log') = Len(log) + 1
            /\ \A i \in 1..Len(log) : log'[i] = log[i]
            /\ log'[Len(log) + 1] = StepFrame
            /\ Len(readyTicks) \in Nat \ {0} /\ Head(readyTicks) = readyTicks[1]
        BY <2>1, <3>1, HostStepFacts
      <3>3. StepFrame.tick = Len(log)
        BY <3>1, <3>2 DEF OrderOK, StepFrame
      <3>4. StepFrame \in Frame(Len(log))
        BY <3>2, <3>3 DEF AnyFrame, Frame
      <3>5. SubSeq(log', 1, Len(log)) = log
        <4> PICK new, n : new = log' /\ n = Len(log)
          OBVIOUS
        <4>1. \A i \in 1..n : new[i] \in AnyFrame /\ new[i] = log[i]
          BY <3>1, <3>2, ElementOfSeq DEF TypeOK
        <4>2. /\ SubSeq(new, 1, n) \in Seq(AnyFrame)
              /\ Len(SubSeq(new, 1, n)) = n
              /\ \A i \in 1..n : SubSeq(new, 1, n)[i] = new[i]
          <5>1. /\ SubSeq(new, 1, n) \in Seq(AnyFrame)
                /\ Len(SubSeq(new, 1, n)) = IF 1 <= n THEN n - 1 + 1 ELSE 0
                /\ \A i \in 1..(n - 1 + 1) : SubSeq(new, 1, n)[i] = new[1 + i - 1]
            BY <3>2, <4>1, SubSeqProperties
          <5> QED BY <3>2, <5>1
        <4>3. log \in Seq(AnyFrame)
          BY <3>1 DEF TypeOK
        <4> QED BY <4>1, <4>2, <4>3, SeqEqual
      <3>6. replayed' = replayed
        BY <2>1 DEF HostStep, clientVars
      <3> QED BY <3>2, <3>4, <3>5, <3>6 DEF Log!Next, Log!Extend
    <2>2. ASSUME NEW c \in Client, ClientStep(c) PROVE Log!Next
      <3>1. PICK f \in canonical[c] : /\ f.tick = nextConsume[c]
                                      /\ replayed' = [replayed EXCEPT ![c] = Append(@, f)]
        BY <2>2 DEF ClientStep
      <3>2. /\ TypeOK /\ FramesOK(c)
        BY DEF IInv
      <3>3. /\ Len(replayed[c]) = f.tick /\ Len(replayed[c]) \in Nat /\ Len(log) \in Nat
            /\ (f.tick + 1) \in 1..Len(log) /\ f = log[f.tick + 1]
        BY <3>1, <3>2, LenProperties DEF TypeOK, FramesOK, InLog
      <3>4. Len(replayed[c]) < Len(log) /\ f = log[Len(replayed[c]) + 1]
        BY <3>3
      <3>5. log' = log
        BY <2>2 DEF ClientStep, hostVars
      <3> QED BY <3>1, <3>4, <3>5 DEF Log!Next, Log!Replay
    <2> QED
      BY <2>1, <2>2
      DEF Next, vars, hostVars, clientVars, HostUpdate, HostReceive, HostCapture, SubmitCommand,
          StallElapses, ClientReceive, EnterGameplay, ClientCapture, IdleHeartbeat, LoseBatch
  <1> QED BY <1>1, <1>2, Inductive, NextIInv, PTL DEF Spec, LogSpec, Log!Spec, Log!vars
=============================================================================
