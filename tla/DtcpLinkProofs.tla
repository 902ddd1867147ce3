---------------------------- MODULE DtcpLinkProofs ----------------------------
(***************************************************************************)
(* What holds of two DTCP channels joined by the lossy channel, for any    *)
(* number of tasks, sends and pauses, any byte of two values or more and   *)
(* any probabilities.                                                      *)
(***************************************************************************)
EXTENDS DtcpLink, FiniteSetTheorems, SequenceTheorems, TLAPS

-----------------------------------------------------------------------------
(***************************************************************************)
(* Type correctness.                                                       *)
(***************************************************************************)

\* The sequence numbers are those of two bytes.
LEMMA SeqModType == ByteBase \in Nat /\ ByteBase >= 2 /\ SeqMod \in Nat /\ SeqMod >= 2
<1>1. ByteBase \in Nat /\ ByteBase >= 2
  BY LinkAssumption
<1>2. ByteBase * ByteBase \in Nat /\ ByteBase * ByteBase >= 2
  BY <1>1
<1>3. QED
  BY <1>1, <1>2 DEF SeqMod

\* What the lower channel is given is the header of a packet, with its payload.
LEMMA ContentsType ==
    ASSUME NEW p \in A!Packet
    PROVE  IntoPacket(p.drf, p.seq_num, <<"ping">>) \in Contents
BY DEF A!Packet, Contents

\* A step of send leaves the sending end well typed.
LEMMA SendType ==
    ASSUME A!TypeOK, NEW c \in Senders,
           A!StopSit(c) \/ A!SwapDrf(c) \/ A!TakeNumber(c) \/ A!Transmit(c) \/ A!StartSit(c)
    PROVE  A!TypeOK'
<1>s. A!Tasks = Senders
  BY DEF A!Tasks
<1>b. A!Blank \in A!Packet
  BY SeqModType DEF A!Blank, A!Packet
<1>p. packet \in [Senders -> A!Packet] /\ packet[c] \in A!Packet
  BY <1>s DEF A!TypeOK
<1>1. CASE A!StopSit(c)
  <2> DEFINE late == silent /\ A!NoneSending
  <2>1. late \in BOOLEAN
    BY DEF A!NoneSending
  <2> HIDE DEF late
  <2>2. [A!Blank EXCEPT !.late = late] \in A!Packet
    BY <1>b, <2>1 DEF A!Packet
  <2>3. packet' = [packet EXCEPT ![c] = [A!Blank EXCEPT !.late = late]]
    BY <1>1 DEF A!StopSit, late
  <2>4. packet' \in [A!Tasks -> A!Packet]
    BY <1>s, <1>p, <2>2, <2>3
  <2>5. /\ set_drf' \in BOOLEAN /\ silent' \in BOOLEAN /\ expired' \in [A!Tasks -> BOOLEAN]
        /\ wire' \in Seq(A!Packet)
    BY <1>s, <1>1 DEF A!StopSit, A!TypeOK
  <2>6. QED
    BY <1>s, <1>1, <2>4, <2>5, LinkAssumption DEF A!StopSit, A!TypeOK, A!TimerState, A!Goto
<1>2. CASE A!SwapDrf(c)
  <2>1. [packet[c] EXCEPT !.drf = set_drf \/ expired[c]] \in A!Packet
    BY <1>p DEF A!Packet
  <2>2. QED
    BY <1>s, <1>2, <2>1 DEF A!SwapDrf, A!TypeOK, A!counters, A!Goto
<1>3. CASE A!TakeNumber(c)
  <2>1. seq_num \in 0..(SeqMod - 1) /\ taken \in Nat
    BY DEF A!TypeOK
  <2>2. seq_num' \in 0..(SeqMod - 1)
    BY <1>3, <2>1, SeqModType DEF A!TakeNumber
  <2>3. [packet[c] EXCEPT !.seq_num = seq_num, !.nth = taken] \in A!Packet
    BY <1>p, <2>1 DEF A!Packet
  <2>4. QED
    BY <1>s, <1>3, <2>2, <2>3 DEF A!TakeNumber, A!TypeOK, A!counters, A!Goto
<1>4. CASE A!Transmit(c)
  <2>1. wire' \in Seq(A!Packet)
    BY <1>p, <1>4 DEF A!Transmit, A!TypeOK
  <2>2. QED
    BY <1>s, <1>b, <1>4, <2>1 DEF A!Transmit, A!TypeOK, A!counters, A!Goto
<1>5. CASE A!StartSit(c)
  BY <1>s, <1>5 DEF A!StartSit, A!TypeOK, A!counters, A!TimerState, A!Goto
<1>6. QED
  BY <1>1, <1>2, <1>3, <1>4, <1>5

\* A step of recv leaves the receiving end well typed.
LEMMA RecvType ==
    ASSUME B!TypeOK, NEW c \in Receivers,
           B!StopRit(c) \/ B!StoreDrf(c) \/ B!Receive(c) \/ B!StartRit(c)
    PROVE  B!TypeOK'
<1>s. B!Tasks = Receivers
  BY DEF B!Tasks
<1>1. CASE B!StopRit(c)
  BY <1>s, <1>1 DEF B!StopRit, B!TypeOK, B!counters, B!TimerState, B!Goto
<1>2. CASE B!StoreDrf(c)
  BY <1>s, <1>2 DEF B!StoreDrf, B!TypeOK, B!counters, B!Goto
<1>3. CASE B!Receive(c)
  BY <1>s, <1>3 DEF B!Receive, B!TypeOK, B!counters, B!Goto
<1>4. CASE B!StartRit(c)
  BY <1>s, <1>4 DEF B!StartRit, B!TypeOK, B!counters, B!TimerState, B!Goto
<1>5. QED
  BY <1>1, <1>2, <1>3, <1>4

\* A call of LossyChannel::send, and its second half.
LEMMA LossySendType ==
    ASSUME Lossy!TypeOK, NEW c \in Senders, NEW bytes \in Contents,
           Lossy!Send(c, bytes) \/ Lossy!Queue(c)
    PROVE  Lossy!TypeOK'
<1>s. c \in Lossy!Tasks
  BY DEF Lossy!Tasks
<1>1. CASE Lossy!Send(c, bytes)
  <2> DEFINE cell == [bytes |-> bytes, id |-> Len(fates) + 1]
  <2>1. cell \in Lossy!Cell
    BY DEF Lossy!TypeOK, Lossy!Cell
  <2>2. PICK fate \in 0..(Scale - 1) :
            /\ fates' = Append(fates, fate)
            /\ loopback' = IF fate < px THEN Append(loopback, cell) ELSE loopback
            /\ hand' = [hand EXCEPT ![c] = IF fate < pq THEN <<cell>> ELSE <<>>]
            /\ at' = [at EXCEPT ![c] = IF fate < pq THEN "queue" ELSE "out"]
    BY <1>1 DEF Lossy!Send
  <2> HIDE DEF cell
  <2>3. fates' \in Seq(0..(Scale - 1)) /\ loopback' \in Seq(Lossy!Cell)
    BY <2>1, <2>2 DEF Lossy!TypeOK
  <2>4. <<cell>> \in Seq(Lossy!Cell) /\ <<>> \in Seq(Lossy!Cell)
    BY <2>1
  <2>5. hand' \in [Lossy!Tasks -> Seq(Lossy!Cell)]
    BY <2>2, <2>4 DEF Lossy!TypeOK
  <2>6. QED
    BY <1>1, <2>2, <2>3, <2>5 DEF Lossy!Send, Lossy!TypeOK
<1>2. CASE Lossy!Queue(c)
  <2>1. delayed' \in Seq(Lossy!Cell) /\ <<>> \in Seq(Lossy!Cell)
    BY <1>s, <1>2 DEF Lossy!Queue, Lossy!TypeOK
  <2>2. hand' \in [Lossy!Tasks -> Seq(Lossy!Cell)]
    BY <1>2, <2>1 DEF Lossy!Queue, Lossy!TypeOK
  <2>3. QED
    BY <1>2, <2>1, <2>2 DEF Lossy!Queue, Lossy!TypeOK
<1>3. QED
  BY <1>1, <1>2

\* The steps of LossyChannel::recv.
LEMMA LossyRecvType ==
    ASSUME Lossy!TypeOK, NEW c \in Receivers,
           Lossy!Poll(c) \/ Lossy!Release(c) \/ Lossy!Resend(c) \/ Lossy!Return(c)
    PROVE  Lossy!TypeOK'
<1>s. c \in Lossy!Tasks
  BY DEF Lossy!Tasks
<1>1. CASE Lossy!Poll(c)
  <2>1. Head(loopback) \in Lossy!Cell /\ Tail(loopback) \in Seq(Lossy!Cell)
    BY <1>1 DEF Lossy!Poll, Lossy!TypeOK
  <2>2. <<Head(loopback)>> \in Seq(Lossy!Cell) /\ popped' \in Seq(Lossy!Cell)
    BY <1>1, <2>1 DEF Lossy!Poll, Lossy!TypeOK
  <2>3. QED
    BY <1>1, <2>1, <2>2 DEF Lossy!Poll, Lossy!TypeOK
<1>2. CASE Lossy!Release(c)
  <2>1. Head(delayed) \in Lossy!Cell /\ Tail(delayed) \in Seq(Lossy!Cell)
    BY <1>2 DEF Lossy!Release, Lossy!TypeOK
  <2>2. <<Head(delayed)>> \in Seq(Lossy!Cell)
    BY <2>1
  <2>3. QED
    BY <1>2, <2>1, <2>2 DEF Lossy!Release, Lossy!TypeOK
<1>3. CASE Lossy!Resend(c)
  <2>1. loopback' \in Seq(Lossy!Cell) /\ <<>> \in Seq(Lossy!Cell)
    BY <1>s, <1>3 DEF Lossy!Resend, Lossy!TypeOK
  <2>2. QED
    BY <1>3, <2>1 DEF Lossy!Resend, Lossy!TypeOK
<1>4. CASE Lossy!Return(c)
  <2>1. <<>> \in Seq(Lossy!Cell)
    OBVIOUS
  <2>2. QED
    BY <1>4, <2>1 DEF Lossy!Return, Lossy!TypeOK
<1>5. QED
  BY <1>1, <1>2, <1>3, <1>4

\* The parts of the link that a step leaves alone keep their types.
LEMMA EndsUntouched ==
    ASSUME TypeOK
    PROVE  /\ UNCHANGED <<sender, pauses>> => A!TypeOK'
           /\ UNCHANGED <<receiver, pauses>> => B!TypeOK'
           /\ UNCHANGED channel => Lossy!TypeOK'
<1>1. UNCHANGED <<sender, pauses>> => A!TypeOK'
  BY DEF TypeOK, A!TypeOK, sender
<1>2. UNCHANGED <<receiver, pauses>> => B!TypeOK'
  BY DEF TypeOK, B!TypeOK, receiver
<1>3. UNCHANGED channel => Lossy!TypeOK'
  BY DEF TypeOK, Lossy!TypeOK, channel
<1>4. QED
  BY <1>1, <1>2, <1>3

\* Both ends and the channel between them keep their types.
THEOREM TypeCorrect == Spec => []TypeOK
<1>1. ASSUME Init PROVE TypeOK
  <2>1. A!TypeOK
    <3>1. A!Blank \in A!Packet
      BY SeqModType DEF A!Blank, A!Packet
    <3>2. set_drf \in BOOLEAN /\ silent \in BOOLEAN
      BY <1>1, Zenon DEF Init, A!Init
    <3>3. expired \in [A!Tasks -> BOOLEAN] /\ packet \in [A!Tasks -> A!Packet] /\ wire \in Seq(A!Packet)
      BY <1>1, <3>1 DEF Init, A!Init
    <3>4. QED
      BY <1>1, <3>2, <3>3, SeqModType, LinkAssumption DEF Init, A!Init, A!TypeOK, A!TimerState
  <2>2. B!TypeOK
    <3>1. [c \in Receivers |-> A!Blank] \in [B!Tasks -> B!Packet]
      BY SeqModType DEF A!Blank, B!Packet, B!Tasks
    <3>2. peer_drf \in BOOLEAN
      BY <1>1, Zenon DEF Init, B!Init
    <3>3. peer_expired \in [B!Tasks -> BOOLEAN] /\ <<>> \in Seq(B!Packet)
      BY <1>1 DEF Init, B!Init
    <3>4. QED
      BY <1>1, <3>1, <3>2, <3>3, SeqModType, LinkAssumption DEF Init, B!Init, B!TypeOK, B!TimerState
  <2>3. Lossy!TypeOK
    <3>1. <<>> \in Seq(Lossy!Cell) /\ <<>> \in Seq(0..(Scale - 1))
      OBVIOUS
    <3>2. QED
      BY <1>1, <3>1 DEF Init, Lossy!Init, Lossy!TypeOK
  <2>4. QED
    BY <2>1, <2>2, <2>3 DEF TypeOK
<1>2. ASSUME TypeOK, [Next]_vars PROVE TypeOK'
  <2>0. A!TypeOK /\ B!TypeOK /\ Lossy!TypeOK
    BY <1>2 DEF TypeOK
  <2>1. ASSUME NEW c \in Senders, SendLocal(c) PROVE TypeOK'
    <3>1. A!TypeOK'
      BY <2>0, <2>1, SendType DEF SendLocal
    <3>2. UNCHANGED <<receiver, channel, pauses>>
      BY <2>1 DEF SendLocal, A!StopSit, A!SwapDrf, A!TakeNumber, A!StartSit, A!counters
    <3>3. QED
      BY <1>2, <3>1, <3>2, EndsUntouched DEF TypeOK
  <2>2. ASSUME NEW c \in Senders, SendLower(c) PROVE TypeOK'
    <3>1. UNCHANGED <<receiver, pauses>>
      BY <2>2 DEF SendLower
    <3>2. packet[c] \in A!Packet
      BY <2>0 DEF A!TypeOK, A!Tasks
    <3>3. IntoPacket(packet[c].drf, packet[c].seq_num, <<"ping">>) \in Contents
      BY <3>2, ContentsType
    <3>4. A!TypeOK'
      BY <1>2, <2>0, <2>2, <3>1, SendType, EndsUntouched DEF SendLower
    <3>5. Lossy!TypeOK'
      BY <2>0, <2>2, <3>3, LossySendType DEF SendLower
    <3>6. QED
      BY <1>2, <3>1, <3>4, <3>5, EndsUntouched DEF TypeOK
  <2>3. ASSUME NEW c \in Receivers, RecvLocal(c) PROVE TypeOK'
    <3>1. B!TypeOK'
      BY <2>0, <2>3, RecvType DEF RecvLocal
    <3>2. UNCHANGED <<sender, channel, pauses>>
      BY <2>3 DEF RecvLocal, B!StopRit, B!StoreDrf, B!StartRit, B!counters
    <3>3. QED
      BY <1>2, <3>1, <3>2, EndsUntouched DEF TypeOK
  <2>4. ASSUME NEW c \in Receivers, RecvLower(c) PROVE TypeOK'
    <3>1. UNCHANGED <<sender, pauses>>
      BY <2>4 DEF RecvLower
    <3>2. B!TypeOK'
      BY <1>2, <2>0, <2>4, <3>1, RecvType, EndsUntouched DEF RecvLower
    <3>3. Lossy!TypeOK'
      BY <2>0, <2>4, LossyRecvType DEF RecvLower
    <3>4. QED
      BY <1>2, <3>1, <3>2, <3>3, EndsUntouched DEF TypeOK
  <2>5. CASE Pause
    <3>1. A!TypeOK'
      BY <2>0, <2>5, LinkAssumption DEF Pause, A!Pause, A!TypeOK, A!TimerState, A!Elapse, A!Lapse
    <3>2. B!TypeOK'
      BY <2>0, <2>5, LinkAssumption DEF Pause, B!Pause, B!TypeOK, B!TimerState, B!Elapse, B!Lapse
    <3>3. QED
      BY <1>2, <2>5, <3>1, <3>2, EndsUntouched DEF Pause, TypeOK
  <2>6. CASE UNCHANGED vars
    BY <1>2, <2>6, EndsUntouched DEF vars, TypeOK
  <2>7. QED
    BY <1>2, <2>1, <2>2, <2>3, <2>4, <2>5, <2>6 DEF Next
<1>3. QED
  BY <1>1, <1>2, PTL DEF Spec

-----------------------------------------------------------------------------
(***************************************************************************)
(* What the cells hold.                                                    *)
(***************************************************************************)

\* The cells that a send has made: the bytes are those of the packet it sent.
Sent ==
    {cell \in Lossy!Cell :
        /\ cell.id \in DOMAIN wire
        /\ cell.bytes = IntoPacket(wire[cell.id].drf, wire[cell.id].seq_num, <<"ping">>)}

\* The cells whose random number has decided that they are queued.
Queued == {cell \in Sent : fates[cell.id] < pq}

\* Everything that can be received or was received has been sent, and only what
\* was queued is delayed or on its way to and from the delayed packets.
CellsOK ==
    /\ Len(fates) = Len(wire)
    /\ loopback \in Seq(Sent) /\ popped \in Seq(Sent) /\ delayed \in Seq(Queued)
    /\ \A c \in Senders : hand[c] \in Seq(Queued)
    /\ \A c \in Receivers : moving[c] \in Seq(Queued)

\* One more packet is sent: what was sent stays sent, with its fate.
LEMMA SentGrows ==
    ASSUME TypeOK, CellsOK, NEW p \in A!Packet, NEW f \in 0..(Scale - 1),
           wire' = Append(wire, p), fates' = Append(fates, f), UNCHANGED pq
    PROVE  Sent \subseteq Sent' /\ Queued \subseteq Queued'
<1>1. wire \in Seq(A!Packet) /\ fates \in Seq(0..(Scale - 1)) /\ Len(fates) = Len(wire)
  BY DEF TypeOK, A!TypeOK, Lossy!TypeOK, CellsOK
<1>2. \A i \in DOMAIN wire : /\ i \in DOMAIN wire' /\ wire'[i] = wire[i]
                             /\ fates'[i] = fates[i]
  BY <1>1
<1>3. Sent \subseteq Sent'
  BY <1>2 DEF Sent
<1>4. QED
  BY <1>2, <1>3 DEF Queued, Sent

\* What is in the channel stays in it while the packets sent do not change.
LEMMA CellsOfSameSends ==
    ASSUME UNCHANGED <<wire, fates, pq>>
    PROVE  Sent' = Sent /\ Queued' = Queued
BY DEF Sent, Queued

\* Sending, delaying, releasing and receiving keep a cell as it was sent.
LEMMA CellsInvariant == Spec => []CellsOK
<1>1. Init => CellsOK
  BY DEF Init, A!Init, Lossy!Init, CellsOK, Lossy!Tasks
<1>2. ASSUME TypeOK, CellsOK, [Next]_vars PROVE CellsOK'
  <2>0. A!TypeOK /\ Lossy!TypeOK
    BY <1>2 DEF TypeOK
  <2>t. /\ DOMAIN hand = Lossy!Tasks /\ DOMAIN moving = Lossy!Tasks /\ DOMAIN at = Lossy!Tasks
        /\ Senders \subseteq Lossy!Tasks /\ Receivers \subseteq Lossy!Tasks
    BY <2>0 DEF Lossy!TypeOK, Lossy!Tasks
  <2>1. ASSUME UNCHANGED <<wire, channel>> PROVE CellsOK'
    BY <1>2, <2>1, CellsOfSameSends DEF CellsOK, channel
  <2>2. ASSUME NEW c \in Senders, SendLocal(c) PROVE CellsOK'
    BY <2>1, <2>2 DEF SendLocal, A!StopSit, A!SwapDrf, A!TakeNumber, A!StartSit
  <2>3. ASSUME NEW c \in Senders, A!Transmit(c),
               Lossy!Send(c, IntoPacket(packet[c].drf, packet[c].seq_num, <<"ping">>))
        PROVE  CellsOK'
    <3> DEFINE p == packet[c]
               bytes == IntoPacket(p.drf, p.seq_num, <<"ping">>)
               cell == [bytes |-> bytes, id |-> Len(fates) + 1]
    <3>1. p \in A!Packet /\ wire' = Append(wire, p)
      BY <2>0, <2>3 DEF A!Transmit, A!TypeOK, A!Tasks
    <3>2. bytes \in Contents
      BY <3>1, ContentsType
    <3>3. PICK f \in 0..(Scale - 1) :
              /\ fates' = Append(fates, f)
              /\ loopback' = IF f < px THEN Append(loopback, cell) ELSE loopback
              /\ hand' = [hand EXCEPT ![c] = IF f < pq THEN <<cell>> ELSE <<>>]
              /\ UNCHANGED <<px, pq, delayed, moving, popped>>
      BY <2>3 DEF Lossy!Send
    <3>4. Sent \subseteq Sent' /\ Queued \subseteq Queued'
      BY <1>2, <3>1, <3>3, SentGrows
    <3>5. /\ wire \in Seq(A!Packet) /\ fates \in Seq(0..(Scale - 1)) /\ Len(fates) = Len(wire)
          /\ Len(fates') = Len(wire')
      BY <1>2, <2>0, <3>1, <3>3 DEF A!TypeOK, Lossy!TypeOK, CellsOK
    <3>6. /\ cell.id = Len(wire') /\ cell.id \in DOMAIN wire' /\ wire'[cell.id] = p
          /\ fates'[cell.id] = f /\ cell.bytes = bytes
      BY <3>1, <3>3, <3>5
    <3>7. cell \in Lossy!Cell
      BY <3>2, <3>5 DEF Lossy!Cell
    <3>8. cell \in Sent' /\ (f < pq => cell \in Queued')
      <4>1. cell \in Sent'
        BY <3>6, <3>7 DEF Sent, Lossy!Cell
      <4>2. QED
        BY <3>3, <3>6, <4>1 DEF Queued
    <3> HIDE DEF cell, bytes, p
    <3>9. /\ loopback \in Seq(Sent') /\ popped' \in Seq(Sent') /\ delayed' \in Seq(Queued')
          /\ \A d \in Senders : hand[d] \in Seq(Queued')
          /\ \A d \in Receivers : moving'[d] \in Seq(Queued')
      BY <1>2, <3>3, <3>4, SeqMonotonic DEF CellsOK
    <3>10. loopback' \in Seq(Sent')
      BY <3>3, <3>8, <3>9
    <3>11. \A d \in Senders : hand'[d] \in Seq(Queued')
      <4>1. CASE f < pq
        <5>1. <<cell>> \in Seq(Queued')
          BY <3>8, <4>1
        <5>2. QED
          BY <2>t, <3>3, <3>9, <4>1, <5>1
      <4>2. CASE ~ (f < pq)
        <5>1. <<>> \in Seq(Queued')
          OBVIOUS
        <5>2. QED
          BY <2>t, <3>3, <3>9, <4>2, <5>1
      <4>3. QED
        BY <4>1, <4>2
    <3>12. QED
      BY <3>5, <3>9, <3>10, <3>11 DEF CellsOK
  \* The other steps of the channel send nothing.
  <2>4. ASSUME UNCHANGED <<wire, fates, pq>>,
               loopback' \in Seq(Sent), popped' \in Seq(Sent), delayed' \in Seq(Queued),
               \A c \in Senders : hand'[c] \in Seq(Queued),
               \A c \in Receivers : moving'[c] \in Seq(Queued)
        PROVE  CellsOK'
    BY <1>2, <2>4, CellsOfSameSends DEF CellsOK
  <2>5. ASSUME NEW c \in Senders, Lossy!Queue(c), UNCHANGED wire PROVE CellsOK'
    <3>1. delayed' \in Seq(Queued)
      <4>1. delayed \in Seq(Queued) /\ hand[c] \in Seq(Queued) /\ delayed' = delayed \o hand[c]
        BY <1>2, <2>5 DEF CellsOK, Lossy!Queue
      <4>2. QED
        BY <4>1
    <3>2. \A d \in Senders : hand'[d] \in Seq(Queued)
      <4>1. <<>> \in Seq(Queued)
        OBVIOUS
      <4>2. QED
        BY <1>2, <2>t, <2>5, <4>1 DEF CellsOK, Lossy!Queue
    <3>3. QED
      BY <1>2, <2>4, <2>5, <3>1, <3>2 DEF CellsOK, Lossy!Queue
  <2>6. ASSUME NEW c \in Receivers, RecvLower(c) PROVE CellsOK'
    <3>0. \A d \in Senders : d # c
      BY LinkAssumption
    <3>1. UNCHANGED wire
      BY <2>6 DEF RecvLower, sender
    <3>2. CASE Lossy!Poll(c)
      <4>1. loopback \in Seq(Sent) /\ popped \in Seq(Sent) /\ loopback # <<>>
        BY <1>2, <3>2 DEF CellsOK, Lossy!Poll
      <4>2. loopback' \in Seq(Sent) /\ popped' \in Seq(Sent)
        BY <3>2, <4>1 DEF Lossy!Poll
      <4>3. \A d \in Senders : hand'[d] = hand[d]
        BY <2>t, <3>0, <3>2 DEF Lossy!Poll
      <4>4. QED
        BY <1>2, <2>4, <3>1, <3>2, <4>2, <4>3 DEF CellsOK, Lossy!Poll
    <3>3. CASE Lossy!Release(c)
      <4>1. delayed \in Seq(Queued) /\ delayed # <<>>
        BY <1>2, <3>3 DEF CellsOK, Lossy!Release
      <4>2. delayed' \in Seq(Queued) /\ <<Head(delayed)>> \in Seq(Queued)
        BY <3>3, <4>1 DEF Lossy!Release
      <4>3. \A d \in Receivers : moving'[d] \in Seq(Queued)
        BY <1>2, <2>t, <3>3, <4>2 DEF CellsOK, Lossy!Release
      <4>4. QED
        BY <1>2, <2>4, <3>1, <3>3, <4>2, <4>3 DEF CellsOK, Lossy!Release
    <3>4. CASE Lossy!Resend(c)
      <4>1. loopback \in Seq(Sent) /\ moving[c] \in Seq(Sent) /\ <<>> \in Seq(Queued)
        <5>1. Queued \subseteq Sent
          BY DEF Queued
        <5>2. QED
          BY <1>2, <5>1, SeqMonotonic DEF CellsOK
      <4>2. loopback' \in Seq(Sent)
        BY <3>4, <4>1 DEF Lossy!Resend
      <4>3. \A d \in Receivers : moving'[d] \in Seq(Queued)
        BY <1>2, <2>t, <3>4, <4>1 DEF CellsOK, Lossy!Resend
      <4>4. QED
        BY <1>2, <2>4, <3>1, <3>4, <4>2, <4>3 DEF CellsOK, Lossy!Resend
    <3>5. CASE Lossy!Return(c)
      <4>1. \A d \in Senders : hand'[d] = hand[d]
        BY <2>t, <3>0, <3>5 DEF Lossy!Return
      <4>2. QED
        BY <1>2, <2>4, <3>1, <3>5, <4>1 DEF CellsOK, Lossy!Return
    <3>6. QED
      BY <2>6, <3>2, <3>3, <3>4, <3>5 DEF RecvLower
  <2>7. ASSUME NEW c \in Receivers, RecvLocal(c) PROVE CellsOK'
    BY <2>1, <2>7 DEF RecvLocal, sender
  <2>8. CASE Pause
    BY <2>1, <2>8 DEF Pause, A!Pause
  <2>9. CASE UNCHANGED vars
    BY <2>1, <2>9 DEF vars, sender
  <2>10. ASSUME NEW c \in Senders, SendLower(c) PROVE CellsOK'
    BY <2>3, <2>5, <2>10 DEF SendLower, sender
  <2>11. QED
    BY <1>2, <2>2, <2>6, <2>7, <2>8, <2>9, <2>10 DEF Next
<1>3. QED
  BY <1>1, <1>2, TypeCorrect, PTL DEF Spec

\* A subsequence of one element.
LEMMA OneElement ==
    ASSUME NEW s, NEW n \in Int
    PROVE  SubSeq(s, n, n) = <<s[n]>>
<1>1. PICK S : S = {s[n]}
  OBVIOUS
<1>2. PICK v : v = SubSeq(s, n, n)
  OBVIOUS
<1>3. \A i \in n..n : s[i] \in S
  BY <1>1
<1>4. v \in Seq(S)
  BY <1>2, <1>3, SubSeqProperties, Zenon
<1>5. Len(v) = 1 /\ v[1] = s[n]
  <2>1. Len(SubSeq(s, n, n)) = (IF n <= n THEN n - n + 1 ELSE 0)
    BY <1>3, SubSeqProperties, Zenon
  <2>2. SubSeq(s, n, n)[1] = s[n]
    OBVIOUS
  <2>3. QED
    BY <1>2, <2>1, <2>2
<1>6. <<s[n]>> \in Seq(S) /\ Len(<<s[n]>>) = 1 /\ <<s[n]>>[1] = s[n]
  BY <1>1
<1>7. Len(v) = Len(<<s[n]>>) /\ \A i \in 1..Len(v) : v[i] = <<s[n]>>[i]
  BY <1>5, <1>6
<1>8. v = <<s[n]>>
  BY <1>4, <1>6, <1>7, SeqEqual, Zenon
<1>9. QED
  BY <1>2, <1>8

\* A header of three bytes and a payload of one.
LEMMA HeaderAndPayload ==
    ASSUME NEW a, NEW b, NEW c, NEW d
    PROVE  /\ <<a>> \o <<b, c>> \o <<d>> = <<a, b, c, d>>
           /\ SubSeq(<<a, b, c, d>>, 4, Len(<<a, b, c, d>>)) = <<d>>
<1> DEFINE S == {a, b, c, d}
<1>1. /\ <<a>> \in Seq(S) /\ <<b, c>> \in Seq(S) /\ <<d>> \in Seq(S)
      /\ <<a, b, c, d>> \in Seq(S) /\ Len(<<a, b, c, d>>) = 4
  OBVIOUS
<1>2. /\ <<a>> \o <<b, c>> \in Seq(S) /\ Len(<<a>> \o <<b, c>>) = 3
      /\ (<<a>> \o <<b, c>>)[1] = a /\ (<<a>> \o <<b, c>>)[2] = b /\ (<<a>> \o <<b, c>>)[3] = c
  BY <1>1
<1>3. <<a>> \o <<b, c>> \o <<d>> = <<a, b, c, d>>
  <2> DEFINE s == <<a>> \o <<b, c>>
  <2> HIDE DEF s, S
  <2>1. s \in Seq(S) /\ <<d>> \in Seq(S) /\ <<a, b, c, d>> \in Seq(S)
    BY <1>1, <1>2 DEF s
  <2>2. Len(s) = 3 /\ s[1] = a /\ s[2] = b /\ s[3] = c
    BY <1>2 DEF s
  <2>3. /\ s \o <<d>> \in Seq(S) /\ Len(s \o <<d>>) = Len(s) + Len(<<d>>)
        /\ \A i \in 1..(Len(s) + Len(<<d>>)) :
              (s \o <<d>>)[i] = IF i <= Len(s) THEN s[i] ELSE <<d>>[i - Len(s)]
    BY <2>1, ConcatProperties
  <2>4. Len(<<d>>) = 1 /\ <<d>>[1] = d
    OBVIOUS
  <2>5. /\ Len(s \o <<d>>) = 4 /\ (s \o <<d>>)[1] = a /\ (s \o <<d>>)[2] = b
        /\ (s \o <<d>>)[3] = c /\ (s \o <<d>>)[4] = d
    BY <2>2, <2>3, <2>4
  <2>6. /\ Len(s \o <<d>>) = Len(<<a, b, c, d>>)
        /\ \A i \in 1..Len(s \o <<d>>) : (s \o <<d>>)[i] = <<a, b, c, d>>[i]
    BY <2>5
  <2>7. s \o <<d>> = <<a, b, c, d>>
    BY <2>1, <2>3, <2>6, SeqEqual, Zenon
  <2>8. QED
    BY <2>7 DEF s
<1>4. SubSeq(<<a, b, c, d>>, 4, 4) = <<d>>
  <2> DEFINE w == <<a, b, c, d>>
  <2>1. w[4] = d
    OBVIOUS
  <2> HIDE DEF w
  <2>2. SubSeq(w, 4, 4) = <<w[4]>>
    BY OneElement
  <2>3. QED
    BY <2>1, <2>2 DEF w
<1>5. QED
  BY <1>1, <1>3, <1>4

\* parse undoes into_packet: the big-endian number, the flag in the type byte and
\* the payload after the header.
LEMMA RoundTrip ==
    ASSUME NEW drf \in BOOLEAN, NEW n \in 0..(SeqMod - 1), NEW bytes,
           bytes = IntoPacket(drf, n, <<"ping">>)
    PROVE  /\ Check(bytes)
           /\ Ty(bytes) = [ty |-> "Transfer", drf |-> drf]
           /\ SeqNum(bytes) = n
           /\ Payload(bytes) = <<"ping">>
<1> DEFINE t == SetTy(drf)
<1>0. ByteBase \in Nat /\ ByteBase >= 2 /\ n \in Nat
  BY SeqModType
<1>1. bytes = <<t, n \div ByteBase, n % ByteBase, "ping">>
  BY HeaderAndPayload DEF IntoPacket, SetSeqNum
<1>2. t \in {0, 1} /\ (t = 1 <=> drf = TRUE) /\ t \div 16 = 0 /\ t % 2 = t
  BY DEF SetTy
<1> HIDE DEF t
<1>3. Len(bytes) = 4 /\ bytes[1] = t /\ bytes[2] = n \div ByteBase /\ bytes[3] = n % ByteBase
  BY <1>1
<1>4. Check(bytes)
  BY <1>2, <1>3 DEF Check
<1>5. Ty(bytes) = [ty |-> "Transfer", drf |-> drf]
  <2>1. (bytes[1] % 2 = 1) = drf
    BY <1>2, <1>3
  <2>2. QED
    BY <1>2, <1>3, <2>1 DEF Ty
<1>6. SeqNum(bytes) = n
  <2>1. (n \div ByteBase) * ByteBase + (n % ByteBase) = n
    BY <1>0
  <2>2. QED
    BY <1>3, <2>1 DEF SeqNum
<1>7. Payload(bytes) = <<"ping">>
  BY <1>1, HeaderAndPayload DEF Payload
<1>8. QED
  BY <1>4, <1>5, <1>6, <1>7

\* Whatever recv hands to the application is what a send was given, however it was
\* delayed, duplicated and overtaken: flag, number and payload.
THEOREM ReceivedIsGenuine == Spec => []Genuine
<1>1. ASSUME TypeOK, CellsOK PROVE Genuine
  <2>1. SUFFICES ASSUME NEW i \in DOMAIN popped
                 PROVE  LET bytes == popped[i].bytes
                            sent  == wire[popped[i].id] IN
                        /\ Check(bytes)
                        /\ Ty(bytes) = [ty |-> "Transfer", drf |-> sent.drf]
                        /\ SeqNum(bytes) = sent.seq_num
                        /\ Payload(bytes) = <<"ping">>
    BY DEF Genuine
  <2> DEFINE sent == wire[popped[i].id]
  <2>2. popped[i] \in Sent
    BY <1>1 DEF CellsOK
  <2>3. /\ popped[i].id \in DOMAIN wire
        /\ popped[i].bytes = IntoPacket(sent.drf, sent.seq_num, <<"ping">>)
    BY <2>2 DEF Sent
  <2>4. sent \in A!Packet
    BY <1>1, <2>3 DEF TypeOK, A!TypeOK
  <2>5. sent.drf \in BOOLEAN /\ sent.seq_num \in 0..(SeqMod - 1)
    BY <2>4 DEF A!Packet
  <2>6. QED
    BY <2>3, <2>5, RoundTrip
<1>2. QED
  BY <1>1, TypeCorrect, CellsInvariant, PTL

-----------------------------------------------------------------------------
(***************************************************************************)
(* Order.  The packets received followed by those that can be received are *)
(* one sequence: a receive moves the border between the two, and both a    *)
(* send and a release append to it.                                        *)
(***************************************************************************)
Line == popped \o loopback

\* In the sequence s a packet comes after one that was sent later only if its
\* random number, in f, has queued it.
InOrder(s, f, q) ==
    \A j \in DOMAIN s : \A i \in 1..(j - 1) : s[i].id > s[j].id => f[s[j].id] < q

\* Appending a cell that is the last one sent.
LEMMA AppendInOrder ==
    ASSUME NEW s \in Seq(Lossy!Cell), NEW cell \in Lossy!Cell, NEW f, NEW q, InOrder(s, f, q),
           \A i \in DOMAIN s : s[i].id <= cell.id
    PROVE  InOrder(Append(s, cell), f, q)
<1>1. cell.id \in Nat /\ \A i \in DOMAIN s : s[i].id \in Nat
  <2>1. \A e \in Lossy!Cell : e.id \in Nat
    BY DEF Lossy!Cell
  <2>2. \A i \in DOMAIN s : s[i] \in Lossy!Cell
    OBVIOUS
  <2>3. QED
    BY <2>1, <2>2
<1>2. SUFFICES ASSUME NEW j \in DOMAIN Append(s, cell), NEW i \in 1..(j - 1),
                      Append(s, cell)[i].id > Append(s, cell)[j].id
               PROVE  f[Append(s, cell)[j].id] < q
  BY DEF InOrder
<1>3. i \in DOMAIN s /\ Append(s, cell)[i] = s[i]
  OBVIOUS
<1>4. CASE j \in DOMAIN s
  <2>1. Append(s, cell)[j] = s[j]
    BY <1>4
  <2>2. QED
    BY <1>2, <1>3, <1>4, <2>1 DEF InOrder
<1>5. CASE j \notin DOMAIN s
  <2>1. Append(s, cell)[j] = cell
    BY <1>5
  <2>2. QED
    BY <1>1, <1>2, <1>3, <2>1
<1>6. QED
  BY <1>4, <1>5

\* Appending cells that were queued.
LEMMA ConcatInOrder ==
    ASSUME NEW s \in Seq(Lossy!Cell), NEW t \in Seq(Lossy!Cell), NEW f, NEW q, InOrder(s, f, q),
           \A k \in DOMAIN t : f[t[k].id] < q
    PROVE  InOrder(s \o t, f, q)
<1>1. SUFFICES ASSUME NEW j \in DOMAIN (s \o t), NEW i \in 1..(j - 1),
                      (s \o t)[i].id > (s \o t)[j].id
               PROVE  f[(s \o t)[j].id] < q
  BY DEF InOrder
<1>2. CASE j \in DOMAIN s
  <2>1. i \in DOMAIN s /\ (s \o t)[j] = s[j] /\ (s \o t)[i] = s[i]
    BY <1>2
  <2>2. QED
    BY <1>1, <1>2, <2>1 DEF InOrder
<1>3. CASE j \notin DOMAIN s
  <2>1. j - Len(s) \in DOMAIN t /\ (s \o t)[j] = t[j - Len(s)]
    BY <1>3
  <2>2. QED
    BY <2>1
<1>4. QED
  BY <1>2, <1>3

\* Taking the first packet of the loopback leaves the whole line as it was.
LEMMA PollLine ==
    ASSUME NEW S, NEW p \in Seq(S), NEW l \in Seq(S), l # <<>>
    PROVE  Append(p, Head(l)) \o Tail(l) = p \o l
OBVIOUS

\* Putting a packet into the loopback puts it at the end of the line.
LEMMA PushLine ==
    ASSUME NEW S, NEW p \in Seq(S), NEW l \in Seq(S), NEW e \in S
    PROVE  p \o Append(l, e) = Append(p \o l, e)
OBVIOUS

\* So do several packets at once.
LEMMA ExtendLine ==
    ASSUME NEW S, NEW p \in Seq(S), NEW l \in Seq(S), NEW m \in Seq(S)
    PROVE  p \o (l \o m) = (p \o l) \o m
BY ConcatAssociative

\* A packet is received after one that was sent later only if it was queued: the
\* loopback is first in, first out, and only queued packets enter it late.
THEOREM OnlyQueuedLate == Spec => []OnlyQueuedOvertaken
<1> DEFINE Inv == InOrder(Line, fates, pq)
<1>1. Init => Inv
  <2>1. Init => popped = <<>> /\ loopback = <<>>
    BY DEF Init, Lossy!Init
  <2>2. <<>> \o <<>> = <<>>
    OBVIOUS
  <2>3. QED
    BY <2>1, <2>2 DEF Line, InOrder
<1>2. ASSUME TypeOK, CellsOK, CellsOK', Inv, [Next]_vars PROVE Inv'
  <2>0. /\ loopback \in Seq(Lossy!Cell) /\ popped \in Seq(Lossy!Cell)
        /\ fates \in Seq(0..(Scale - 1)) /\ wire \in Seq(A!Packet) /\ Len(fates) = Len(wire)
        /\ Line \in Seq(Lossy!Cell)
    BY <1>2 DEF TypeOK, A!TypeOK, Lossy!TypeOK, CellsOK, Line
  <2>l. \A i \in DOMAIN Line : Line[i].id \in 1..Len(fates)
    <3>1. Line \in Seq(Sent)
      BY <1>2 DEF CellsOK, Line
    <3>2. \A cell \in Sent : cell.id \in 1..Len(fates)
      BY <2>0 DEF Sent
    <3>3. QED
      BY <3>1, <3>2
  <2>1. ASSUME UNCHANGED <<popped, loopback, fates, pq>> PROVE Inv'
    BY <1>2, <2>1 DEF Line
  <2>2. ASSUME NEW c \in Senders, SendLocal(c) PROVE Inv'
    BY <2>1, <2>2 DEF SendLocal, channel
  <2>3. ASSUME NEW c \in Senders, NEW bytes \in Contents, Lossy!Send(c, bytes) PROVE Inv'
    <3> DEFINE cell == [bytes |-> bytes, id |-> Len(fates) + 1]
    <3>1. PICK f \in 0..(Scale - 1) :
              /\ fates' = Append(fates, f)
              /\ loopback' = IF f < px THEN Append(loopback, cell) ELSE loopback
              /\ UNCHANGED <<pq, popped>>
      BY <2>3 DEF Lossy!Send
    <3>2. cell \in Lossy!Cell /\ cell.id = Len(fates) + 1
      BY <2>0 DEF Lossy!Cell
    <3> HIDE DEF cell
    <3>3. InOrder(Line, fates', pq)
      <4>1. \A i \in DOMAIN Line : fates'[Line[i].id] = fates[Line[i].id]
        BY <2>0, <2>l, <3>1
      <4>2. QED
        BY <1>2, <4>1 DEF InOrder
    <3>4. InOrder(Append(Line, cell), fates', pq)
      <4>1. \A i \in DOMAIN Line : Line[i].id <= cell.id
        BY <2>0, <2>l, <3>2
      <4>2. QED
        BY <2>0, <3>2, <3>3, <4>1, AppendInOrder
    <3>5. Line' = Line \/ Line' = Append(Line, cell)
      BY <2>0, <3>1, <3>2, PushLine DEF Line
    <3>6. QED
      BY <3>1, <3>3, <3>4, <3>5
  <2>4. ASSUME NEW c \in Senders, SendLower(c) PROVE Inv'
    <3>1. CASE Lossy!Queue(c)
      BY <2>1, <3>1 DEF Lossy!Queue
    <3>2. IntoPacket(packet[c].drf, packet[c].seq_num, <<"ping">>) \in Contents
      <4>1. packet[c] \in A!Packet
        BY <1>2 DEF TypeOK, A!TypeOK, A!Tasks
      <4>2. QED
        BY <4>1, ContentsType
    <3>3. QED
      BY <2>3, <2>4, <3>1, <3>2 DEF SendLower
  <2>5. ASSUME NEW c \in Receivers, RecvLower(c) PROVE Inv'
    <3>1. CASE Lossy!Poll(c)
      <4>1. Line' = Line
        BY <2>0, <3>1, PollLine DEF Lossy!Poll, Line
      <4>2. QED
        BY <1>2, <3>1, <4>1 DEF Lossy!Poll
    <3>2. CASE Lossy!Release(c) \/ Lossy!Return(c)
      BY <2>1, <3>2 DEF Lossy!Release, Lossy!Return
    <3>3. CASE Lossy!Resend(c)
      <4>1. moving[c] \in Seq(Queued)
        BY <1>2 DEF CellsOK
      <4>2. moving[c] \in Seq(Lossy!Cell) /\ \A k \in DOMAIN moving[c] : fates[moving[c][k].id] < pq
        <5>1. Queued \subseteq Lossy!Cell
          BY DEF Queued, Sent
        <5>2. \A cell \in Queued : fates[cell.id] < pq
          BY DEF Queued
        <5>3. moving[c] \in Seq(Lossy!Cell)
          BY <4>1, <5>1, SeqMonotonic
        <5>4. \A k \in DOMAIN moving[c] : moving[c][k] \in Queued
          BY <4>1
        <5>5. QED
          BY <5>2, <5>3, <5>4
      <4>3. Line' = Line \o moving[c]
        <5>1. Line' = popped \o (loopback \o moving[c])
          BY <3>3 DEF Lossy!Resend, Line
        <5>2. popped \o (loopback \o moving[c]) = (popped \o loopback) \o moving[c]
          <6>1. ASSUME NEW m \in Seq(Lossy!Cell)
                PROVE  popped \o (loopback \o m) = (popped \o loopback) \o m
            BY <2>0, ExtendLine
          <6>2. QED
            BY <4>2, <6>1, Zenon
        <5>3. QED
          BY <5>1, <5>2 DEF Line
      <4>4. InOrder(Line \o moving[c], fates, pq)
        BY <1>2, <2>0, <4>2, ConcatInOrder
      <4>5. QED
        BY <3>3, <4>3, <4>4 DEF Lossy!Resend
    <3>4. QED
      BY <2>5, <3>1, <3>2, <3>3 DEF RecvLower
  <2>6. ASSUME NEW c \in Receivers, RecvLocal(c) PROVE Inv'
    BY <2>1, <2>6 DEF RecvLocal, channel
  <2>7. CASE Pause
    BY <2>1, <2>7 DEF Pause, channel
  <2>8. CASE UNCHANGED vars
    BY <2>1, <2>8 DEF vars, channel
  <2>9. QED
    BY <1>2, <2>2, <2>4, <2>5, <2>6, <2>7, <2>8 DEF Next
<1>3. ASSUME TypeOK, Inv PROVE OnlyQueuedOvertaken
  <2>1. popped \in Seq(Lossy!Cell) /\ loopback \in Seq(Lossy!Cell)
    BY <1>3 DEF TypeOK, Lossy!TypeOK
  <2>2. \A j \in DOMAIN popped : /\ j \in DOMAIN Line /\ Line[j] = popped[j]
                                 /\ \A i \in 1..(j - 1) : Line[i] = popped[i]
    BY <2>1 DEF Line
  <2>3. QED
    BY <1>3, <2>2 DEF InOrder, OnlyQueuedOvertaken, Lossy!OnlyQueuedOvertaken
<1>4. QED
  BY <1>1, <1>2, <1>3, TypeCorrect, CellsInvariant, PTL DEF Spec

-----------------------------------------------------------------------------
(***************************************************************************)
(* Conservation.  Counting the copies of a packet in a queue and in hands. *)
(***************************************************************************)
One(cell, i) == IF cell.id = i THEN 1 ELSE 0

\* The places of the copies of packet i in a queue.
Places(s, i) == {k \in DOMAIN s : s[k].id = i}

\* The lossy channel counts as FiniteSets does.
LEMMA SameCardinality == ASSUME NEW S PROVE Lossy!Cardinality(S) = Cardinality(S)
BY DEF Lossy!Cardinality, Cardinality, Lossy!IsFiniteSet, IsFiniteSet

\* A queue holds finitely many copies, and none if it is empty.
LEMMA PlacesFinite ==
    ASSUME NEW S, NEW s \in Seq(S), NEW i
    PROVE  /\ IsFiniteSet(Places(s, i)) /\ Lossy!Copies(s, i) = Cardinality(Places(s, i))
           /\ Lossy!Copies(s, i) \in Nat
<1>1. Len(s) \in Nat /\ DOMAIN s = 1..Len(s)
  OBVIOUS
<1>2. IsFiniteSet(1..Len(s))
  BY <1>1, FS_Interval
<1>3. IsFiniteSet(Places(s, i))
  BY <1>1, <1>2, FS_Subset DEF Places
<1>4. Cardinality(Places(s, i)) \in Nat
  BY <1>3, FS_CardinalityType
<1>5. Lossy!Copies(s, i) = Cardinality(Places(s, i))
  BY SameCardinality DEF Places, Lossy!Copies
<1>6. QED
  BY <1>3, <1>4, <1>5

\* Pushing a packet.
LEMMA CopiesAppend ==
    ASSUME NEW S, NEW s \in Seq(S), NEW e \in S, NEW i
    PROVE  Lossy!Copies(Append(s, e), i) = Lossy!Copies(s, i) + One(e, i)
<1> DEFINE n == Len(s) + 1
<1>1. /\ DOMAIN Append(s, e) = DOMAIN s \cup {n} /\ n \notin DOMAIN s
      /\ Append(s, e)[n] = e /\ \A k \in DOMAIN s : Append(s, e)[k] = s[k]
  OBVIOUS
<1>2. n \notin Places(s, i)
  BY <1>1 DEF Places
<1>3. Places(Append(s, e), i) = IF e.id = i THEN Places(s, i) \cup {n} ELSE Places(s, i)
  BY <1>1 DEF Places
<1>4. /\ IsFiniteSet(Places(s, i)) /\ Lossy!Copies(s, i) = Cardinality(Places(s, i))
      /\ Lossy!Copies(s, i) \in Nat
  BY PlacesFinite
<1>5. Cardinality(Places(s, i) \cup {n}) = Cardinality(Places(s, i)) + 1
  BY <1>2, <1>4, FS_AddElement
<1>6. Append(s, e) \in Seq(S)
  OBVIOUS
<1>7. Lossy!Copies(Append(s, e), i) = Cardinality(Places(Append(s, e), i))
  BY <1>6, PlacesFinite
<1>8. QED
  BY <1>3, <1>4, <1>5, <1>7 DEF One

\* Popping a packet.
LEMMA CopiesTail ==
    ASSUME NEW S, NEW s \in Seq(S), s # <<>>, NEW i
    PROVE  Lossy!Copies(s, i) = Lossy!Copies(Tail(s), i) + One(Head(s), i)
<1> DEFINE t == Tail(s)
           rest == Places(s, i) \ {1}
           f == [k \in Places(t, i) |-> k + 1]
<1>1. /\ t \in Seq(S) /\ Head(s) = s[1] /\ 1 \in DOMAIN s
      /\ \A k \in DOMAIN t : k \in Nat /\ k # 0 /\ k + 1 \in DOMAIN s /\ t[k] = s[k + 1]
      /\ \A k \in DOMAIN s : k \in Nat /\ (k # 1 => k - 1 \in DOMAIN t /\ t[k - 1] = s[k])
  OBVIOUS
<1>2. /\ IsFiniteSet(Places(s, i)) /\ Lossy!Copies(s, i) = Cardinality(Places(s, i))
      /\ Lossy!Copies(s, i) \in Nat
  BY PlacesFinite
<1>3. /\ IsFiniteSet(Places(t, i)) /\ Lossy!Copies(t, i) = Cardinality(Places(t, i))
      /\ Lossy!Copies(t, i) \in Nat
  BY <1>1, PlacesFinite
<1> HIDE DEF t
<1>4. f \in Bijection(Places(t, i), rest)
  <2>1. f \in [Places(t, i) -> rest]
    BY <1>1 DEF Places
  <2>2. \A j, k \in Places(t, i) : f[j] = f[k] => j = k
    BY <1>1 DEF Places
  <2>3. \A k \in rest : \E j \in Places(t, i) : f[j] = k
    <3>1. SUFFICES ASSUME NEW k \in rest PROVE \E j \in Places(t, i) : f[j] = k
      OBVIOUS
    <3>2. k \in DOMAIN s /\ s[k].id = i /\ k # 1
      BY <3>1 DEF Places
    <3>3. k \in Nat /\ k - 1 \in DOMAIN t /\ t[k - 1] = s[k]
      BY <1>1, <3>2
    <3>4. k - 1 \in Places(t, i)
      BY <3>2, <3>3 DEF Places
    <3>5. f[k - 1] = k
      BY <3>3, <3>4
    <3>6. QED
      BY <3>4, <3>5
  <2> HIDE DEF f, rest
  <2>4. DOMAIN f = Places(t, i)
    BY <2>1
  <2>5. QED
    BY <2>1, <2>2, <2>3, <2>4 DEF Bijection, Injection, Surjection, IsInjective
<1> HIDE DEF f, rest
<1>5. Cardinality(rest) = Cardinality(Places(t, i))
  <2>1. ExistsBijection(Places(t, i), rest)
    BY <1>4 DEF ExistsBijection
  <2>2. QED
    BY <1>3, <2>1, FS_Bijection
<1>6. Cardinality(rest) = IF 1 \in Places(s, i) THEN Cardinality(Places(s, i)) - 1
                                                ELSE Cardinality(Places(s, i))
  BY <1>2, FS_RemoveElement DEF rest
<1>7. 1 \in Places(s, i) <=> Head(s).id = i
  BY <1>1 DEF Places
<1>8. Lossy!Copies(s, i) = Lossy!Copies(t, i) + One(Head(s), i)
  BY <1>2, <1>3, <1>5, <1>6, <1>7 DEF One
<1>9. QED
  BY <1>8 DEF t

\* No copies of a packet that is not there.
LEMMA CopiesNone ==
    ASSUME NEW S, NEW s \in Seq(S), NEW i, \A k \in DOMAIN s : s[k].id # i
    PROVE  Lossy!Copies(s, i) = 0
<1>1. Places(s, i) = {}
  BY DEF Places
<1>2. QED
  BY <1>1, PlacesFinite, FS_EmptySet

\* The tasks of T that hold packet i in their hands h.
Holders(T, h, i) == {c \in T : \E k \in DOMAIN h[c] : h[c][k].id = i}

\* The finite set of those who hold packet i in h gains one in g, if e is that packet.
Gains(T, h, g, e, i) ==
    /\ IsFiniteSet(Holders(T, g, i))
    /\ Cardinality(Holders(T, g, i)) = Cardinality(Holders(T, h, i)) + One(e, i)

\* A task takes a packet into its empty hands.
LEMMA HoldersPut ==
    ASSUME NEW T, NEW h, NEW g, NEW c \in T, NEW e, NEW i, h[c] = <<>>, g[c] = <<e>>,
           \A d \in T \ {c} : g[d] = h[d], IsFiniteSet(Holders(T, h, i))
    PROVE  Gains(T, h, g, e, i)
<1>1. c \notin Holders(T, h, i) /\ Cardinality(Holders(T, h, i)) \in Nat
  BY FS_CardinalityType DEF Holders
<1>2. c \in Holders(T, g, i) <=> e.id = i
  <2>1. DOMAIN <<e>> = {1} /\ <<e>>[1] = e
    OBVIOUS
  <2>2. QED
    BY <2>1 DEF Holders
<1>3. Holders(T, g, i) = IF e.id = i THEN Holders(T, h, i) \cup {c} ELSE Holders(T, h, i)
  BY <1>1, <1>2 DEF Holders
<1>4. IsFiniteSet(Holders(T, h, i) \cup {c})
      /\ Cardinality(Holders(T, h, i) \cup {c}) = Cardinality(Holders(T, h, i)) + 1
  BY <1>1, FS_AddElement
<1>5. CASE e.id = i
  BY <1>3, <1>4, <1>5 DEF One, Gains
<1>6. CASE e.id # i
  BY <1>1, <1>3, <1>6 DEF One, Gains
<1>7. QED
  BY <1>5, <1>6

\* A task lets go of the packet in its hands.
LEMMA HoldersClear ==
    ASSUME NEW T, NEW h, NEW g, NEW c \in T, NEW e, NEW i, h[c] = <<e>>, g[c] = <<>>,
           \A d \in T \ {c} : g[d] = h[d], IsFiniteSet(Holders(T, h, i))
    PROVE  /\ IsFiniteSet(Holders(T, g, i))
           /\ Cardinality(Holders(T, h, i)) = Cardinality(Holders(T, g, i)) + One(e, i)
<1>1. c \notin Holders(T, g, i)
  BY DEF Holders
<1>2. c \in Holders(T, h, i) <=> e.id = i
  <2>1. DOMAIN <<e>> = {1} /\ <<e>>[1] = e
    OBVIOUS
  <2>2. QED
    BY <2>1 DEF Holders
<1>3. Holders(T, g, i) = Holders(T, h, i) \ {c}
  BY <1>1 DEF Holders
<1>4. IsFiniteSet(Holders(T, g, i)) /\ Cardinality(Holders(T, h, i)) \in Nat
  <2>1. IsFiniteSet(Holders(T, g, i))
    BY <1>3, FS_RemoveElement
  <2>2. Cardinality(Holders(T, h, i)) \in Nat
    BY FS_CardinalityType
  <2>3. QED
    BY <2>1, <2>2
<1>5. Cardinality(Holders(T, g, i)) = IF e.id = i THEN Cardinality(Holders(T, h, i)) - 1
                                                  ELSE Cardinality(Holders(T, h, i))
  BY <1>2, <1>3, FS_RemoveElement
<1>6. QED
  BY <1>4, <1>5 DEF One

\* A task has a packet in its hands just while it is between the two queues.
HandsOK ==
    /\ \A c \in Senders :
        /\ at[c] \in {"out", "queue"}
        /\ at[c] = "out" => hand[c] = <<>>
        /\ at[c] = "queue" => \E e \in Lossy!Cell : hand[c] = <<e>>
    /\ \A c \in Receivers :
        /\ at[c] \in {"out", "drain", "resend"}
        /\ at[c] # "resend" => moving[c] = <<>>
        /\ at[c] = "resend" => \E e \in Lossy!Cell : moving[c] = <<e>>

\* It picks a packet up and puts it down with each of its two locks.
LEMMA HandsInvariant == Spec => []HandsOK
<1>1. Init => HandsOK
  BY DEF Init, Lossy!Init, HandsOK, Lossy!Tasks
<1>2. ASSUME TypeOK, HandsOK, [Next]_vars PROVE HandsOK'
  <2>t. /\ DOMAIN hand = Lossy!Tasks /\ DOMAIN moving = Lossy!Tasks /\ DOMAIN at = Lossy!Tasks
        /\ Senders \subseteq Lossy!Tasks /\ Receivers \subseteq Lossy!Tasks
        /\ \A c \in Senders : c \notin Receivers
        /\ loopback \in Seq(Lossy!Cell) /\ delayed \in Seq(Lossy!Cell) /\ Len(fates) \in Nat
    BY <1>2, LinkAssumption DEF TypeOK, Lossy!TypeOK, Lossy!Tasks
  <2>1. ASSUME UNCHANGED channel PROVE HandsOK'
    BY <1>2, <2>1 DEF HandsOK, channel
  <2>2. ASSUME NEW c \in Senders, SendLower(c) PROVE HandsOK'
    <3>1. CASE Lossy!Queue(c)
      BY <1>2, <2>t, <3>1 DEF HandsOK, Lossy!Queue
    <3>2. ASSUME Lossy!Send(c, IntoPacket(packet[c].drf, packet[c].seq_num, <<"ping">>))
          PROVE  HandsOK'
      <4> DEFINE bytes == IntoPacket(packet[c].drf, packet[c].seq_num, <<"ping">>)
                 cell == [bytes |-> bytes, id |-> Len(fates) + 1]
      <4>1. bytes \in Contents
        <5>1. packet[c] \in A!Packet
          BY <1>2 DEF TypeOK, A!TypeOK, A!Tasks
        <5>2. QED
          BY <5>1, ContentsType
      <4>2. cell \in Lossy!Cell
        BY <2>t, <4>1 DEF Lossy!Cell
      <4>3. /\ UNCHANGED moving
            /\ \/ /\ hand' = [hand EXCEPT ![c] = <<cell>>]
                  /\ at' = [at EXCEPT ![c] = "queue"]
               \/ /\ hand' = [hand EXCEPT ![c] = <<>>]
                  /\ at' = [at EXCEPT ![c] = "out"]
        BY <3>2 DEF Lossy!Send
      <4> HIDE DEF cell, bytes
      <4>4. QED
        BY <1>2, <2>t, <4>2, <4>3 DEF HandsOK
    <3>3. QED
      BY <2>2, <3>1, <3>2 DEF SendLower
  <2>3. ASSUME NEW c \in Receivers, RecvLower(c) PROVE HandsOK'
    <3>1. CASE Lossy!Poll(c)
      BY <1>2, <2>t, <3>1 DEF HandsOK, Lossy!Poll
    <3>2. CASE Lossy!Release(c)
      <4>1. Head(delayed) \in Lossy!Cell
        BY <2>t, <3>2 DEF Lossy!Release
      <4>2. QED
        BY <1>2, <2>t, <3>2, <4>1 DEF HandsOK, Lossy!Release
    <3>3. CASE Lossy!Resend(c)
      BY <1>2, <2>t, <3>3 DEF HandsOK, Lossy!Resend
    <3>4. CASE Lossy!Return(c)
      BY <1>2, <2>t, <3>4 DEF HandsOK, Lossy!Return
    <3>5. QED
      BY <2>3, <3>1, <3>2, <3>3, <3>4 DEF RecvLower
  <2>4. QED
    BY <1>2, <2>1, <2>2, <2>3 DEF Next, SendLocal, RecvLocal, Pause, vars
<1>3. QED
  BY <1>1, <1>2, TypeCorrect, PTL DEF Spec

\* The copies of packet i in the queues, and in the hands of tasks.
InQueues(i) == Lossy!Copies(popped, i) + Lossy!Copies(loopback, i) + Lossy!Copies(delayed, i)

Carried(i) == Cardinality(Holders(Senders, hand, i)) + Cardinality(Holders(Receivers, moving, i))

\* The copies of packet i that its random number has granted.
Due(i) ==
    IF i \in DOMAIN fates
    THEN (IF fates[i] < px THEN 1 ELSE 0) + (IF fates[i] < pq THEN 1 ELSE 0)
    ELSE 0

\* Conservation, for the packets that are not sent yet as well: of those there is
\* no copy.
Balanced(i) ==
    /\ IsFiniteSet(Holders(Senders, hand, i)) /\ IsFiniteSet(Holders(Receivers, moving, i))
    /\ InQueues(i) + Carried(i) = Due(i)

\* The numbers of which the balance of packet i is made.
LEMMA Numbers ==
    ASSUME TypeOK, NEW i, Balanced(i)
    PROVE  /\ Lossy!Copies(popped, i) \in Nat /\ Lossy!Copies(loopback, i) \in Nat
           /\ Lossy!Copies(delayed, i) \in Nat
           /\ Cardinality(Holders(Senders, hand, i)) \in Nat
           /\ Cardinality(Holders(Receivers, moving, i)) \in Nat
<1>1. popped \in Seq(Lossy!Cell) /\ loopback \in Seq(Lossy!Cell) /\ delayed \in Seq(Lossy!Cell)
  BY DEF TypeOK, Lossy!TypeOK
<1>2. /\ Lossy!Copies(popped, i) \in Nat /\ Lossy!Copies(loopback, i) \in Nat
      /\ Lossy!Copies(delayed, i) \in Nat
  BY <1>1, PlacesFinite
<1>3. IsFiniteSet(Holders(Senders, hand, i)) /\ IsFiniteSet(Holders(Receivers, moving, i))
  BY DEF Balanced
<1>4. QED
  BY <1>2, <1>3, FS_CardinalityType

\* Copies of a single packet at the end of a queue.
LEMMA CopiesConcatOne ==
    ASSUME NEW S, NEW s \in Seq(S), NEW e \in S, NEW i
    PROVE  Lossy!Copies(s \o <<e>>, i) = Lossy!Copies(s, i) + One(e, i)
<1>1. s \o <<e>> = Append(s, e)
  OBVIOUS
<1>2. QED
  BY <1>1, CopiesAppend

\* A send draws the fate of a new packet and makes the copies that it grants.
LEMMA SendBalance ==
    ASSUME TypeOK, HandsOK, NEW i \in Nat, Balanced(i), NEW c \in Senders,
           NEW bytes \in Contents, Lossy!Send(c, bytes)
    PROVE  Balanced(i)'
<1> DEFINE cell == [bytes |-> bytes, id |-> Len(fates) + 1]
<1>t. /\ DOMAIN hand = Lossy!Tasks /\ Senders \subseteq Lossy!Tasks
      /\ loopback \in Seq(Lossy!Cell) /\ fates \in Seq(0..(Scale - 1))
      /\ px \in Nat /\ pq \in Nat /\ Scale \in Nat
  BY LinkAssumption DEF TypeOK, Lossy!TypeOK, Lossy!Tasks
<1>1. PICK f \in 0..(Scale - 1) :
          /\ fates' = Append(fates, f)
          /\ loopback' = IF f < px THEN Append(loopback, cell) ELSE loopback
          /\ hand' = [hand EXCEPT ![c] = IF f < pq THEN <<cell>> ELSE <<>>]
          /\ UNCHANGED <<px, pq, delayed, moving, popped>>
  BY DEF Lossy!Send
<1>2. cell \in Lossy!Cell /\ cell.id = Len(fates) + 1
  BY <1>t DEF Lossy!Cell
<1>3. hand[c] = <<>>
  BY DEF Lossy!Send, HandsOK
<1> HIDE DEF cell
<1>4. Lossy!Copies(loopback', i) = Lossy!Copies(loopback, i)
                                       + (IF f < px THEN One(cell, i) ELSE 0)
  <2>1. Lossy!Copies(Append(loopback, cell), i) = Lossy!Copies(loopback, i) + One(cell, i)
    BY <1>t, <1>2, CopiesAppend
  <2>2. Lossy!Copies(loopback, i) \in Nat
    BY Numbers
  <2>3. QED
    BY <1>1, <2>1, <2>2
<1>5. /\ IsFiniteSet(Holders(Senders, hand', i))
      /\ Cardinality(Holders(Senders, hand', i))
             = Cardinality(Holders(Senders, hand, i)) + (IF f < pq THEN One(cell, i) ELSE 0)
  <2>1. IsFiniteSet(Holders(Senders, hand, i)) /\ Cardinality(Holders(Senders, hand, i)) \in Nat
    BY Numbers DEF Balanced
  <2>2. \A d \in Senders \ {c} : hand'[d] = hand[d]
    BY <1>t, <1>1
  <2>3. CASE f < pq
    <3>1. hand'[c] = <<cell>>
      BY <1>t, <1>1, <2>3
    <3>2. PICK e : e = cell
      OBVIOUS
    <3>3. /\ IsFiniteSet(Holders(Senders, hand', i))
          /\ Cardinality(Holders(Senders, hand', i))
                 = Cardinality(Holders(Senders, hand, i)) + One(e, i)
      <4>1. Gains(Senders, hand, hand', e, i)
        BY <1>3, <2>1, <2>2, <3>1, <3>2, HoldersPut
      <4>2. QED
        BY <4>1 DEF Gains
    <3>4. QED
      BY <2>3, <3>2, <3>3
  <2>4. CASE ~ (f < pq)
    <3>1. hand'[c] = hand[c]
      BY <1>t, <1>1, <1>3, <2>4
    <3>2. Holders(Senders, hand', i) = Holders(Senders, hand, i)
      BY <2>2, <3>1 DEF Holders
    <3>3. QED
      BY <2>1, <2>4, <3>2
  <2>5. QED
    BY <2>3, <2>4
<1>6. Due(i)' = Due(i) + (IF f < px THEN One(cell, i) ELSE 0) + (IF f < pq THEN One(cell, i) ELSE 0)
  <2>1. CASE i = Len(fates) + 1
    <3>1. i \notin DOMAIN fates /\ i \in DOMAIN fates' /\ fates'[i] = f
      BY <1>t, <1>1, <2>1
    <3>2. One(cell, i) = 1
      BY <1>2, <2>1 DEF One
    <3>3. QED
      BY <1>1, <3>1, <3>2 DEF Due
  <2>2. CASE i # Len(fates) + 1
    <3>1. (i \in DOMAIN fates' <=> i \in DOMAIN fates) /\ (i \in DOMAIN fates => fates'[i] = fates[i])
      BY <1>t, <1>1, <2>2
    <3>2. One(cell, i) = 0
      BY <1>2, <2>2 DEF One
    <3>3. Due(i) \in Nat /\ Due(i)' = Due(i)
      BY <1>1, <3>1 DEF Due
    <3>4. QED
      BY <3>2, <3>3
  <2>3. QED
    BY <2>1, <2>2
<1>7. /\ Lossy!Copies(popped', i) = Lossy!Copies(popped, i)
      /\ Lossy!Copies(delayed', i) = Lossy!Copies(delayed, i)
      /\ Holders(Receivers, moving', i) = Holders(Receivers, moving, i)
  BY <1>1
<1>8. One(cell, i) \in Nat
  BY DEF One
<1>9. InQueues(i)' + Carried(i)' = Due(i)'
  <2>1. InQueues(i) + Carried(i) = Due(i)
    BY DEF Balanced
  <2>2. QED
    BY <1>4, <1>5, <1>6, <1>7, <1>8, <2>1, Numbers DEF InQueues, Carried
<1>10. QED
  BY <1>5, <1>7, <1>9 DEF Balanced

\* The second half of a send moves a packet from its hands to the delayed ones.
LEMMA QueueBalance ==
    ASSUME TypeOK, HandsOK, NEW i, Balanced(i), NEW c \in Senders, Lossy!Queue(c)
    PROVE  Balanced(i)'
<1>t. /\ DOMAIN hand = Lossy!Tasks /\ Senders \subseteq Lossy!Tasks
      /\ delayed \in Seq(Lossy!Cell)
  BY DEF TypeOK, Lossy!TypeOK, Lossy!Tasks
<1>1. PICK e \in Lossy!Cell : hand[c] = <<e>>
  BY DEF HandsOK, Lossy!Queue
<1>2. delayed' = delayed \o <<e>> /\ hand'[c] = <<>> /\ \A d \in Senders \ {c} : hand'[d] = hand[d]
  BY <1>t, <1>1 DEF Lossy!Queue
<1>3. Lossy!Copies(delayed', i) = Lossy!Copies(delayed, i) + One(e, i)
  BY <1>t, <1>1, <1>2, CopiesConcatOne
<1>4. /\ IsFiniteSet(Holders(Senders, hand', i))
      /\ Cardinality(Holders(Senders, hand, i)) = Cardinality(Holders(Senders, hand', i)) + One(e, i)
  <2>1. IsFiniteSet(Holders(Senders, hand, i))
    BY DEF Balanced
  <2>2. QED
    BY <1>1, <1>2, <2>1, HoldersClear
<1>5. Cardinality(Holders(Senders, hand', i)) \in Nat
  BY <1>4, FS_CardinalityType
<1>6. /\ Lossy!Copies(popped', i) = Lossy!Copies(popped, i)
      /\ Lossy!Copies(loopback', i) = Lossy!Copies(loopback, i)
      /\ Holders(Receivers, moving', i) = Holders(Receivers, moving, i)
      /\ Due(i)' = Due(i)
  BY DEF Lossy!Queue, Due
<1>7. One(e, i) \in Nat
  BY DEF One
<1>8. InQueues(i)' + Carried(i)' = InQueues(i) + Carried(i)
  BY <1>3, <1>4, <1>5, <1>6, <1>7, Numbers DEF InQueues, Carried
<1>9. QED
  BY <1>4, <1>6, <1>8 DEF Balanced

\* What a receive polls from the loopback is received.
LEMMA PollBalance ==
    ASSUME TypeOK, NEW i, Balanced(i), NEW c \in Receivers, Lossy!Poll(c)
    PROVE  Balanced(i)'
<1> DEFINE e == Head(loopback)
<1>t. /\ DOMAIN hand = Lossy!Tasks /\ \A d \in Senders : d # c
      /\ popped \in Seq(Lossy!Cell) /\ loopback \in Seq(Lossy!Cell) /\ loopback # <<>>
      /\ e \in Lossy!Cell
  BY LinkAssumption DEF TypeOK, Lossy!TypeOK, Lossy!Poll
<1> HIDE DEF e
<1>1. popped' = Append(popped, e) /\ loopback' = Tail(loopback)
  BY DEF Lossy!Poll, e
<1>2. Lossy!Copies(popped', i) = Lossy!Copies(popped, i) + One(e, i)
  BY <1>t, <1>1, CopiesAppend
<1>3. Lossy!Copies(loopback, i) = Lossy!Copies(loopback', i) + One(e, i)
  BY <1>t, <1>1, CopiesTail DEF e
<1>4. Lossy!Copies(loopback', i) \in Nat
  <2>1. loopback' \in Seq(Lossy!Cell)
    BY <1>t, <1>1
  <2>2. QED
    BY <2>1, PlacesFinite
<1>5. \A d \in Senders : hand'[d] = hand[d]
  BY <1>t DEF Lossy!Poll
<1>6. /\ Lossy!Copies(delayed', i) = Lossy!Copies(delayed, i)
      /\ Holders(Senders, hand', i) = Holders(Senders, hand, i)
      /\ Holders(Receivers, moving', i) = Holders(Receivers, moving, i)
      /\ Due(i)' = Due(i)
  BY <1>5 DEF Lossy!Poll, Due, Holders
<1>7. One(e, i) \in Nat
  BY DEF One
<1>8. InQueues(i)' + Carried(i)' = InQueues(i) + Carried(i)
  BY <1>2, <1>3, <1>4, <1>6, <1>7, Numbers DEF InQueues, Carried
<1>9. QED
  BY <1>6, <1>8 DEF Balanced

\* A delayed packet is taken into the hands of a receive.
LEMMA ReleaseBalance ==
    ASSUME TypeOK, HandsOK, NEW i, Balanced(i), NEW c \in Receivers, Lossy!Release(c)
    PROVE  Balanced(i)'
<1>t. /\ DOMAIN moving = Lossy!Tasks /\ Receivers \subseteq Lossy!Tasks
      /\ delayed \in Seq(Lossy!Cell) /\ delayed # <<>>
  BY DEF TypeOK, Lossy!TypeOK, Lossy!Release, Lossy!Tasks
<1>e. PICK e \in Lossy!Cell : e = Head(delayed)
  BY <1>t
<1>0. delayed' = Tail(delayed)
  BY DEF Lossy!Release
<1>1. /\ moving[c] = <<>> /\ moving'[c] = <<e>>
      /\ \A d \in Receivers \ {c} : moving'[d] = moving[d]
  BY <1>t, <1>e DEF Lossy!Release, HandsOK
<1>2. Lossy!Copies(delayed, i) = Lossy!Copies(delayed', i) + One(e, i)
  BY <1>t, <1>e, <1>0, CopiesTail
<1>3. Lossy!Copies(delayed', i) \in Nat
  <2>1. delayed' \in Seq(Lossy!Cell)
    BY <1>t, <1>0
  <2>2. QED
    BY <2>1, PlacesFinite
<1>4. /\ IsFiniteSet(Holders(Receivers, moving', i))
      /\ Cardinality(Holders(Receivers, moving', i))
             = Cardinality(Holders(Receivers, moving, i)) + One(e, i)
  <2>1. IsFiniteSet(Holders(Receivers, moving, i))
    BY DEF Balanced
  <2>2. moving[c] = <<>> /\ moving'[c] = <<e>>
    BY <1>1
  <2>3. \A d \in Receivers \ {c} : moving'[d] = moving[d]
    BY <1>1
  <2>4. Gains(Receivers, moving, moving', e, i)
    BY <2>1, <2>2, <2>3, HoldersPut, Zenon
  <2>5. QED
    BY <2>4 DEF Gains
<1>5. /\ Lossy!Copies(popped', i) = Lossy!Copies(popped, i)
      /\ Lossy!Copies(loopback', i) = Lossy!Copies(loopback, i)
      /\ Holders(Senders, hand', i) = Holders(Senders, hand, i)
      /\ Due(i)' = Due(i)
  BY DEF Lossy!Release, Due
<1>6. One(e, i) \in Nat
  BY DEF One
<1>7. InQueues(i)' + Carried(i)' = InQueues(i) + Carried(i)
  BY <1>2, <1>3, <1>4, <1>5, <1>6, Numbers DEF InQueues, Carried
<1>8. QED
  BY <1>4, <1>5, <1>7 DEF Balanced

\* The packet in the hands of a receive is pushed to the loopback.
LEMMA ResendBalance ==
    ASSUME TypeOK, HandsOK, NEW i, Balanced(i), NEW c \in Receivers, Lossy!Resend(c)
    PROVE  Balanced(i)'
<1>t. /\ DOMAIN moving = Lossy!Tasks /\ Receivers \subseteq Lossy!Tasks
      /\ loopback \in Seq(Lossy!Cell)
  BY DEF TypeOK, Lossy!TypeOK, Lossy!Tasks
<1>1. PICK e \in Lossy!Cell : moving[c] = <<e>>
  BY DEF HandsOK, Lossy!Resend
<1>2. /\ loopback' = loopback \o <<e>> /\ moving'[c] = <<>>
      /\ \A d \in Receivers \ {c} : moving'[d] = moving[d]
  BY <1>t, <1>1 DEF Lossy!Resend
<1>3. Lossy!Copies(loopback', i) = Lossy!Copies(loopback, i) + One(e, i)
  BY <1>t, <1>1, <1>2, CopiesConcatOne
<1>4. /\ IsFiniteSet(Holders(Receivers, moving', i))
      /\ Cardinality(Holders(Receivers, moving, i))
             = Cardinality(Holders(Receivers, moving', i)) + One(e, i)
  <2>1. IsFiniteSet(Holders(Receivers, moving, i))
    BY DEF Balanced
  <2>2. QED
    BY <1>1, <1>2, <2>1, HoldersClear
<1>5. Cardinality(Holders(Receivers, moving', i)) \in Nat
  BY <1>4, FS_CardinalityType
<1>6. /\ Lossy!Copies(popped', i) = Lossy!Copies(popped, i)
      /\ Lossy!Copies(delayed', i) = Lossy!Copies(delayed, i)
      /\ Holders(Senders, hand', i) = Holders(Senders, hand, i)
      /\ Due(i)' = Due(i)
  BY DEF Lossy!Resend, Due
<1>7. One(e, i) \in Nat
  BY DEF One
<1>8. InQueues(i)' + Carried(i)' = InQueues(i) + Carried(i)
  BY <1>3, <1>4, <1>5, <1>6, <1>7, Numbers DEF InQueues, Carried
<1>9. QED
  BY <1>4, <1>6, <1>8 DEF Balanced

\* The packet that recv returns was counted when it was polled.
LEMMA ReturnBalance ==
    ASSUME TypeOK, NEW i, Balanced(i), NEW c \in Receivers, Lossy!Return(c)
    PROVE  Balanced(i)'
<1>1. DOMAIN hand = Lossy!Tasks /\ \A d \in Senders : d # c
  BY LinkAssumption DEF TypeOK, Lossy!TypeOK
<1>2. \A d \in Senders : hand'[d] = hand[d]
  BY <1>1 DEF Lossy!Return
<1>3. Holders(Senders, hand', i) = Holders(Senders, hand, i)
  BY <1>2 DEF Holders
<1>4. QED
  BY <1>3 DEF Lossy!Return, Balanced, InQueues, Carried, Due

AllBalanced == \A i \in Nat : Balanced(i)

\* Every step of the two locks keeps the balance of every packet.
LEMMA BalanceInvariant == Spec => []AllBalanced
<1>1. Init => AllBalanced
  <2>1. SUFFICES ASSUME Init, NEW i \in Nat PROVE Balanced(i)
    BY DEF AllBalanced
  <2>2. /\ popped = <<>> /\ loopback = <<>> /\ delayed = <<>> /\ fates = <<>>
        /\ \A c \in Senders : hand[c] = <<>>
        /\ \A c \in Receivers : moving[c] = <<>>
    BY <2>1 DEF Init, Lossy!Init, Lossy!Tasks
  <2>3. <<>> \in Seq(Lossy!Cell) /\ DOMAIN <<>> = {}
    OBVIOUS
  <2>4. Lossy!Copies(<<>>, i) = 0
    BY <2>3, CopiesNone
  <2>5. Holders(Senders, hand, i) = {} /\ Holders(Receivers, moving, i) = {}
    BY <2>2, <2>3 DEF Holders
  <2>6. Due(i) = 0
    BY <2>2, <2>3 DEF Due
  <2>7. InQueues(i) = 0
    BY <2>2, <2>4 DEF InQueues
  <2>8. Carried(i) = 0
    BY <2>5, FS_EmptySet DEF Carried
  <2>9. QED
    BY <2>5, <2>6, <2>7, <2>8, FS_EmptySet DEF Balanced
<1>2. ASSUME TypeOK, HandsOK, AllBalanced, [Next]_vars PROVE AllBalanced'
  <2>1. SUFFICES ASSUME NEW i \in Nat PROVE Balanced(i)'
    BY DEF AllBalanced
  <2>2. Balanced(i)
    BY <1>2 DEF AllBalanced
  <2>3. ASSUME UNCHANGED channel PROVE Balanced(i)'
    BY <2>2, <2>3 DEF channel, Balanced, InQueues, Carried, Due
  <2>4. ASSUME NEW c \in Senders, SendLower(c) PROVE Balanced(i)'
    <3>1. IntoPacket(packet[c].drf, packet[c].seq_num, <<"ping">>) \in Contents
      <4>1. packet[c] \in A!Packet
        BY <1>2 DEF TypeOK, A!TypeOK, A!Tasks
      <4>2. QED
        BY <4>1, ContentsType
    <3>2. QED
      BY <1>2, <2>2, <2>4, <3>1, SendBalance, QueueBalance DEF SendLower
  <2>5. ASSUME NEW c \in Receivers, RecvLower(c) PROVE Balanced(i)'
    BY <1>2, <2>2, <2>5, PollBalance, ReleaseBalance, ResendBalance, ReturnBalance
       DEF RecvLower
  <2>6. QED
    BY <1>2, <2>3, <2>4, <2>5 DEF Next, SendLocal, RecvLocal, Pause, vars
<1>3. QED
  BY <1>1, <1>2, TypeCorrect, HandsInvariant, PTL DEF Spec

\* The lossy channel neither loses nor duplicates a packet on its own account: the
\* copies received, queued, delayed and in hand between two locks are those that
\* the packet's random number has granted, however sends and receives interleave.
THEOREM CopiesConserved == Spec => []Conserved
<1>1. ASSUME TypeOK, AllBalanced PROVE Conserved
  <2>1. SUFFICES ASSUME NEW i \in DOMAIN fates
                 PROVE  Lossy!Copies(popped, i) + Lossy!Copies(loopback, i)
                            + Lossy!Copies(delayed, i) + Lossy!InHand(i)
                        = (IF fates[i] < px THEN 1 ELSE 0) + (IF fates[i] < pq THEN 1 ELSE 0)
    BY DEF Conserved, Lossy!Conserved
  <2>2. i \in Nat
    BY <1>1 DEF TypeOK, Lossy!TypeOK
  <2>3. Lossy!InHand(i) = Carried(i)
    BY SameCardinality DEF Lossy!InHand, Carried, Holders
  <2>4. QED
    BY <1>1, <2>2, <2>3 DEF AllBalanced, Balanced, InQueues, Due
<1>2. QED
  BY <1>1, TypeCorrect, BalanceInvariant, PTL

-----------------------------------------------------------------------------
(***************************************************************************)
(* The ends of the range of px and pq.                                     *)
(***************************************************************************)

\* With pq = 0 nothing is queued, so no receive has anything to move.
LEMMA NothingMoved ==
    ASSUME TypeOK, CellsOK, pq = 0, NEW c \in Receivers
    PROVE  moving[c] = <<>>
<1>1. Queued = {}
  <2>1. \A i \in DOMAIN fates : fates[i] >= 0
    BY LinkAssumption DEF TypeOK, Lossy!TypeOK
  <2>2. DOMAIN fates = DOMAIN wire
    BY DEF TypeOK, A!TypeOK, Lossy!TypeOK, CellsOK
  <2>3. \A cell \in Sent : fates[cell.id] >= 0 /\ fates[cell.id] \in Int
    BY <2>1, <2>2, LinkAssumption DEF Sent, TypeOK, Lossy!TypeOK
  <2>4. QED
    BY <2>3 DEF Queued
<1>2. PICK m : m = moving[c]
  OBVIOUS
<1>3. m \in Seq(Queued)
  BY <1>2 DEF CellsOK
<1>4. m = <<>>
  BY <1>1, <1>3
<1>5. QED
  BY <1>2, <1>4

\* On a reliable channel the line is the packets sent, each at its place; on a
\* partitioned one it is empty.  What ExtremesExact says of the packets received
\* is not inductive without those that are still in the loopback.
Complete(s, n) == Len(s) = n /\ \A k \in DOMAIN s : s[k].id = k

ExtremeInv ==
    /\ px = Scale /\ pq = 0 => Complete(Line, Len(fates))
    /\ px = 0 /\ pq = 0 => Line = <<>>

\* The next packet makes it complete again.
LEMMA CompleteGrows ==
    ASSUME NEW s \in Seq(Lossy!Cell), NEW n \in Nat, Complete(s, n),
           NEW e \in Lossy!Cell, e.id = n + 1
    PROVE  Complete(Append(s, e), n + 1)
<1>1. /\ Len(s) = n /\ DOMAIN s = 1..n
      /\ Len(Append(s, e)) = n + 1 /\ DOMAIN Append(s, e) = 1..(n + 1)
      /\ Append(s, e)[n + 1] = e
      /\ \A k \in 1..n : Append(s, e)[k] = s[k]
  BY DEF Complete
<1>2. \A k \in 1..(n + 1) : k = n + 1 \/ k \in 1..n
  OBVIOUS
<1>3. QED
  BY <1>1, <1>2 DEF Complete

\* Sending and receiving keep the line as it should be at both ends of the range.
LEMMA ExtremesInvariant == Spec => []ExtremeInv
<1>1. Init => ExtremeInv
  <2>1. Init => popped = <<>> /\ loopback = <<>> /\ fates = <<>>
    BY DEF Init, Lossy!Init
  <2>2. <<>> \o <<>> = <<>> /\ Len(<<>>) = 0 /\ DOMAIN <<>> = {}
    OBVIOUS
  <2>3. QED
    BY <2>1, <2>2 DEF Line, ExtremeInv, Complete
<1>2. ASSUME TypeOK, CellsOK, ExtremeInv, [Next]_vars PROVE ExtremeInv'
  <2>0. /\ loopback \in Seq(Lossy!Cell) /\ popped \in Seq(Lossy!Cell)
        /\ fates \in Seq(0..(Scale - 1)) /\ Len(fates) \in Nat
        /\ Line \in Seq(Lossy!Cell)
    BY <1>2 DEF TypeOK, Lossy!TypeOK, Line
  <2>1. ASSUME Line' = Line, UNCHANGED <<px, pq, fates>> PROVE ExtremeInv'
    BY <1>2, <2>1 DEF ExtremeInv
  <2>2. ASSUME UNCHANGED channel PROVE ExtremeInv'
    BY <2>1, <2>2 DEF channel, Line
  <2>3. ASSUME NEW c \in Senders, NEW bytes \in Contents, Lossy!Send(c, bytes) PROVE ExtremeInv'
    <3> DEFINE cell == [bytes |-> bytes, id |-> Len(fates) + 1]
    <3>1. PICK f \in 0..(Scale - 1) :
              /\ fates' = Append(fates, f)
              /\ loopback' = IF f < px THEN Append(loopback, cell) ELSE loopback
              /\ px' = px /\ pq' = pq /\ popped' = popped
      BY <2>3 DEF Lossy!Send
    <3>2. cell \in Lossy!Cell /\ cell.id = Len(fates) + 1
      BY <2>0 DEF Lossy!Cell
    <3> HIDE DEF cell
    <3>3. Len(fates') = Len(fates) + 1
      BY <2>0, <3>1
    <3>4. ASSUME px = Scale, pq = 0 PROVE Complete(Line', Len(fates'))
      <4>1. f < px
        BY <3>4, LinkAssumption
      <4>2. Line' = Append(Line, cell)
        BY <2>0, <3>1, <3>2, <4>1, PushLine DEF Line
      <4>3. Complete(Line, Len(fates))
        BY <1>2, <3>4 DEF ExtremeInv
      <4>4. QED
        BY <2>0, <3>2, <3>3, <4>2, <4>3, CompleteGrows
    <3>5. ASSUME px = 0, pq = 0 PROVE Line' = <<>>
      <4>1. ~ (f < px)
        BY <3>5, LinkAssumption
      <4>2. Line' = Line
        BY <3>1, <4>1 DEF Line
      <4>3. QED
        BY <1>2, <3>5, <4>2 DEF ExtremeInv
    <3>6. QED
      BY <3>1, <3>4, <3>5 DEF ExtremeInv
  <2>4. ASSUME NEW c \in Senders, SendLower(c) PROVE ExtremeInv'
    <3>1. CASE Lossy!Queue(c)
      BY <2>1, <3>1 DEF Lossy!Queue, Line
    <3>2. IntoPacket(packet[c].drf, packet[c].seq_num, <<"ping">>) \in Contents
      <4>1. packet[c] \in A!Packet
        BY <1>2 DEF TypeOK, A!TypeOK, A!Tasks
      <4>2. QED
        BY <4>1, ContentsType
    <3>3. QED
      BY <2>3, <2>4, <3>1, <3>2 DEF SendLower
  <2>5. ASSUME NEW c \in Receivers, RecvLower(c) PROVE ExtremeInv'
    <3>1. CASE Lossy!Poll(c)
      <4>1. Line' = Line
        BY <2>0, <3>1, PollLine DEF Lossy!Poll, Line
      <4>2. QED
        BY <2>1, <3>1, <4>1 DEF Lossy!Poll
    <3>2. CASE Lossy!Release(c) \/ Lossy!Return(c)
      BY <2>1, <3>2 DEF Lossy!Release, Lossy!Return, Line
    <3>3. CASE Lossy!Resend(c)
      <4>1. CASE pq = 0
        <5>1. moving[c] = <<>>
          BY <1>2, <4>1, NothingMoved
        <5>2. loopback' = loopback
          BY <2>0, <3>3, <5>1 DEF Lossy!Resend
        <5>3. QED
          BY <2>1, <3>3, <5>2 DEF Lossy!Resend, Line
      <4>2. CASE pq # 0
        BY <3>3, <4>2 DEF Lossy!Resend, ExtremeInv
      <4>3. QED
        BY <4>1, <4>2
    <3>4. QED
      BY <2>5, <3>1, <3>2, <3>3 DEF RecvLower
  <2>6. QED
    BY <1>2, <2>2, <2>4, <2>5 DEF Next, SendLocal, RecvLocal, Pause, vars
<1>3. QED
  BY <1>1, <1>2, TypeCorrect, CellsInvariant, PTL DEF Spec

\* At the ends of the range the lossy channel is exactly one of the three channels
\* that its builder's documentation names, for any tasks that send and receive: a
\* reliable channel that keeps the order, a partition, or one that yields every
\* packet twice.
THEOREM ExtremesAsDocumented == Spec => []ExtremesExact
<1>1. ASSUME TypeOK, ExtremeInv, AllBalanced, Conserved PROVE ExtremesExact
  <2>0. popped \in Seq(Lossy!Cell) /\ loopback \in Seq(Lossy!Cell)
    BY <1>1 DEF TypeOK, Lossy!TypeOK
  <2>1. \A j \in DOMAIN popped : j \in DOMAIN Line /\ Line[j] = popped[j]
    BY <2>0 DEF Line
  <2>2. ASSUME px = Scale, pq = 0 PROVE \A i \in DOMAIN popped : popped[i].id = i
    BY <1>1, <2>1, <2>2 DEF ExtremeInv, Complete
  <2>3. ASSUME px = 0, pq = 0 PROVE popped = <<>>
    <3>1. DOMAIN Line = {}
      BY <1>1, <2>3 DEF ExtremeInv
    <3>2. 1 \notin DOMAIN popped
      BY <2>1, <3>1
    <3>3. Len(popped) = 0
      <4>1. PICK n \in Nat : n = Len(popped) /\ DOMAIN popped = 1..n
        BY <2>0
      <4>2. QED
        BY <3>2, <4>1
    <3>4. QED
      BY <2>0, <3>3, EmptySeq, Zenon
  <2>4. ASSUME px = Scale, pq = Scale, NEW i \in DOMAIN fates, Lossy!AllReceived(i)
        PROVE  Lossy!Copies(popped, i) = 2
    <3>1. /\ fates[i] < px /\ fates[i] < pq
      BY <1>1, <2>4, LinkAssumption DEF TypeOK, Lossy!TypeOK
    <3>2. Lossy!Copies(popped, i) + Lossy!Copies(loopback, i)
              + Lossy!Copies(delayed, i) + Lossy!InHand(i) = 1 + 1
      BY <1>1, <3>1 DEF Conserved, Lossy!Conserved
    <3>3. Lossy!Copies(loopback, i) + Lossy!Copies(delayed, i) + Lossy!InHand(i) = 0
      BY <2>4 DEF Lossy!AllReceived
    <3>4. Lossy!Copies(popped, i) \in Nat /\ Lossy!Copies(loopback, i) \in Nat
      BY <2>0, PlacesFinite
    <3>5. Lossy!Copies(delayed, i) \in Nat
      <4>1. delayed \in Seq(Lossy!Cell)
        BY <1>1 DEF TypeOK, Lossy!TypeOK
      <4>2. QED
        BY <4>1, PlacesFinite
    <3>6. Lossy!InHand(i) \in Nat
      <4>1. Balanced(i)
        BY <1>1, <2>4 DEF AllBalanced, TypeOK, Lossy!TypeOK
      <4>2. Carried(i) \in Nat
        BY <4>1, FS_CardinalityType DEF Balanced, Carried
      <4>3. QED
        BY <4>2, SameCardinality DEF Lossy!InHand, Carried, Holders
    <3>7. PICK p, l, d, h \in Nat :
              /\ p = Lossy!Copies(popped, i) /\ l = Lossy!Copies(loopback, i)
              /\ d = Lossy!Copies(delayed, i) /\ h = Lossy!InHand(i)
      BY <3>4, <3>5, <3>6
    <3>8. QED
      BY <3>2, <3>3, <3>7
  <2>5. QED
    BY <2>2, <2>3, <2>4 DEF ExtremesExact, Lossy!ExtremesExact
<1>2. QED
  BY <1>1, TypeCorrect, ExtremesInvariant, BalanceInvariant, CopiesConserved, PTL

================================================================================
