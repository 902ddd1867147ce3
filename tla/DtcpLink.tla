-------------------------------- MODULE DtcpLink --------------------------------
(***************************************************************************)
(* Two DTCP channels joined by the lossy channel, as setup_mock of         *)
(* dtcp/src/lib.rs builds them: Senders call send on one end, Receivers    *)
(* call recv on the other.  Both ends are Dtcp, the channel between them   *)
(* is LossyChannel and what travels are the bytes of DtcpPacket.           *)
(***************************************************************************)
EXTENDS DtcpPacket, FiniteSets

CONSTANTS
    Senders, Receivers,
    Scale,          \* granularity of the probabilities
    MaxSends,       \* bound on the calls of send
    MaxPauses       \* bound on the pauses longer than an interval

ASSUME LinkAssumption ==
    /\ Senders \cap Receivers = {}
    /\ Scale \in Nat \ {0} /\ ByteBase \in Nat \ {0, 1}
    /\ MaxSends \in Nat /\ MaxPauses \in Nat

SeqMod == ByteBase * ByteBase       \* u16

VARIABLES
    set_drf, seq_num, sit, pc, expired, packet, wire, taken, silent, lapses, sends, \* sending end
    peer_drf, peer_rit, peer_pc, peer_expired, peer_lapses,    \* receiving end
    pauses,
    px, pq, loopback, delayed, at, hand, moving, fates, popped              \* the channel

sender   == <<set_drf, seq_num, sit, pc, expired, packet, wire, taken, silent, lapses, sends>>
receiver == <<peer_drf, peer_rit, peer_pc, peer_expired, peer_lapses>>
channel  == <<px, pq, loopback, delayed, at, hand, moving, fates, popped>>
vars     == <<sender, receiver, pauses, channel>>

\* Every packet carries the same payload, "ping".
Contents == {IntoPacket(drf, n, <<"ping">>) : drf \in BOOLEAN, n \in 0..(SeqMod - 1)}

\* The sending end: nobody receives on it, and LossyChannel::send returns no error.
A == INSTANCE Dtcp WITH Receivers <- {}, rit <- "off", failures <- 0, MaxFailures <- 0

\* The receiving end: nobody sends on it.
B == INSTANCE Dtcp WITH Senders <- {}, set_drf <- peer_drf, rit <- peer_rit,
        pc <- peer_pc, expired <- peer_expired, seq_num <- 0, sit <- "off",
        packet <- [c \in Receivers |-> A!Blank], wire <- <<>>, taken <- 0,
        silent <- (~ TRUE), lapses <- peer_lapses, sends <- 0, failures <- 0, MaxFailures <- 0

Lossy == INSTANCE LossyChannel

\* The type invariant.
TypeOK == A!TypeOK /\ B!TypeOK /\ Lossy!TypeOK

-----------------------------------------------------------------------------
\* Steps of send before and after the call of the lower channel.
SendLocal(c) ==
    /\ \/ A!StopSit(c)
       \/ A!SwapDrf(c)
       \/ A!TakeNumber(c)
       \/ at[c] = "out" /\ A!StartSit(c)
    /\ UNCHANGED <<receiver, channel>>

\* self.channel.send(packet.into_packet()).await
SendLower(c) ==
    /\ \/ /\ A!Transmit(c)
          /\ Lossy!Send(c, IntoPacket(packet[c].drf, packet[c].seq_num, <<"ping">>))
       \/ UNCHANGED sender /\ Lossy!Queue(c)
    /\ UNCHANGED <<receiver, pauses>>

\* Steps of recv before and after the call of the lower channel.
RecvLocal(c) ==
    /\ B!StopRit(c) \/ B!StoreDrf(c) \/ B!StartRit(c)
    /\ UNCHANGED <<sender, channel>>

\* self.channel.recv().await; what it returns is parsed at once.
RecvLower(c) ==
    /\ peer_pc[c] = "await"
    /\ \/ /\ Lossy!Poll(c) \/ Lossy!Release(c) \/ Lossy!Resend(c)
          /\ UNCHANGED receiver
       \/ /\ Lossy!Return(c)
          /\ B!Receive(c)
          /\ peer_pc'[c] = IF Check(hand[c][1].bytes) THEN "start_rit" ELSE "idle"
    /\ UNCHANGED <<sender, pauses>>

Pause == A!Pause /\ B!Pause /\ UNCHANGED channel

Init == A!Init /\ B!Init /\ Lossy!Init

Next ==
    \/ \E c \in Senders : SendLocal(c) \/ SendLower(c)
    \/ \E c \in Receivers : RecvLocal(c) \/ RecvLower(c)
    \/ Pause

Spec == Init /\ [][Next]_vars

\* The application keeps receiving, and a send that has begun is polled to its end.
FairSpec ==
    /\ Spec
    /\ \A c \in Senders : WF_vars(SendLower(c))
    /\ \A c \in Receivers : WF_vars(RecvLocal(c) \/ RecvLower(c))

-----------------------------------------------------------------------------
(***************************************************************************)
(* Properties.                                                             *)
(***************************************************************************)

\* The lossy channel neither loses nor invents a copy: see LossyChannel.
Conserved == Lossy!Conserved

\* The three channels that the builder's documentation names: see LossyChannel.
ExtremesExact == Lossy!ExtremesExact

\* Only a packet that was queued is overtaken: see LossyChannel.
OnlyQueuedOvertaken == Lossy!OnlyQueuedOvertaken

\* What recv hands to the application is what send was given: the packet parses,
\* and its flag, its number and its payload are those that its send chose, for
\* the copy that comes late as for the first one.
Genuine ==
    \A i \in DOMAIN popped :
        LET bytes == popped[i].bytes
            sent  == wire[popped[i].id] IN
        /\ Check(bytes)
        /\ Ty(bytes) = [ty |-> "Transfer", drf |-> sent.drf]
        /\ SeqNum(bytes) = sent.seq_num
        /\ Payload(bytes) = <<"ping">>

\* A delayed packet is received if there is another one to receive: none is
\* stranded by the order in which the two locks are taken.  (Without another one
\* it stays delayed for ever.)
DelayedReleased ==
    \A i \in 1..MaxSends :
        (Lossy!Copies(delayed, i) > 0 /\ loopback # <<>>) ~> Lossy!AllReceived(i)

================================================================================
