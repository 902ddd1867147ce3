----------------------------- MODULE EfcpHandshake -----------------------------
(***************************************************************************)
(* Setting up an EFCP connection: EfcpChannel::initiator and ::responder   *)
(* in efcp/src/lib.rs, over the datagrams of a DTP channel.                *)
(*                                                                         *)
(* The three messages of the XK1sig handshake carry the first negotiation  *)
(* messages; what is left of the negotiation goes over the encrypted       *)
(* channel.  The network may lose, duplicate and reorder datagrams, and    *)
(* nothing below retransmits or filters them: DtcpChannel and DiscoChannel *)
(* hand over every packet that parses and decrypts.                        *)
(*                                                                         *)
(* The two tasks share nothing but the network, so one action is what a    *)
(* task does between two receives.                                         *)
(***************************************************************************)
EXTENDS HandshakePacket, FiniteSets

CONSTANTS
    ProtocolLists,  \* the protocol lists a socket may be bound with
    Observed,       \* the initiator's address as the responder's socket sees it
    MaxLost,        \* bound on the datagrams the network loses
    MaxDuplicated,  \* bound on the datagrams the network delivers once more
    MaxIoErrors     \* bound on the I/O errors of the UDP socket

ASSUME HandshakeAssumption ==
    /\ ProtocolLists \subseteq Seq(Protocol)
    /\ Observed \in Addresses
    /\ MaxLost \in Nat /\ MaxDuplicated \in Nat /\ MaxIoErrors \in Nat

I     == "initiator"
R     == "responder"
Sides == {I, R}
Peer(s) == IF s = I THEN R ELSE I

VARIABLES
    protocols,      \* EfcpSocket.protocols of each side
    pc,             \* where each task waits, or how it ended
    negotiate,      \* the Negotiation of each side
    external_addr,  \* the external address that each side holds
    nonce,          \* DiscoChannel.nonce of each side
    wire,           \* the datagrams in flight to each side
    lost, duplicated, io_errors    \* what has gone wrong so far

faults == <<lost, duplicated, io_errors>>
vars   == <<protocols, pc, negotiate, external_addr, nonce, wire, faults>>

\* "msg1", "msg2" and "msg3": waits in the handshake loop for that message;
\* "negotiate": waits in the loop that follows it.  "done": returned Ok;
\* "no_protocol": Err(Negotiation); "failed": another Err; "panicked": the
\* assertion of into_protocol failed.
Waiting == {"msg1", "msg2", "msg3", "negotiate"}
Ended   == {"done", "no_protocol", "failed", "panicked"}

\* The packets that this exchange can send, as bytes, and what they are read as.
Packets == {ToBytes(neg, addr) : neg \in {n \in Message \cup {NoMessage} : Encodable(n)},
                                 addr \in {Observed, NoAddr}}
Parsed  == [bytes \in Packets |-> FromBytes(bytes)]

\* What a datagram holds once decrypted: the bytes of a HandshakePacket.
Datagram == [stage: {"msg1", "msg2", "msg3", "transport"}, nonce: Nat, bytes: Packets]

\* The type invariant.
TypeOK ==
    /\ protocols \in [Sides -> ProtocolLists]
    /\ pc \in [Sides -> {"start"} \cup Waiting \cup Ended]
    /\ negotiate \in [Sides -> State]
    /\ external_addr \in [Sides -> {Observed, NoAddr}]
    /\ nonce \in [Sides -> Nat]
    /\ wire \in [Sides -> SUBSET Datagram]
    /\ lost \in 0..MaxLost
    /\ duplicated \in 0..MaxDuplicated
    /\ io_errors \in 0..MaxIoErrors

-----------------------------------------------------------------------------
(***************************************************************************)
(* Datagrams.                                                              *)
(***************************************************************************)

\* HandshakePacket::new, and session.write_message on its bytes.
HandshakeMessage(stage, neg, addr) ==
    [stage |-> stage, nonce |-> 0, bytes |-> ToBytes(neg, addr)]

\* The same packet through DiscoChannel::send, under a fresh nonce.
TransportMessage(s, neg, addr) ==
    [stage |-> "transport", nonce |-> nonce[s], bytes |-> ToBytes(neg, addr)]

\* Does read_message accept m?  A handshake message decrypts only as the next
\* message of the handshake, a transport message only after it; the nonce is
\* taken from the packet, and one that was seen before is not refused.
Readable(s, m) == IF pc[s] = "negotiate" THEN m.stage = "transport" ELSE m.stage = pc[s]

\* What side s does with datagram m: from_bytes, then negotiate.message.
Turn(s, m) ==
    LET msg == Parsed[m.bytes]
        turn == HandleMessage(negotiate[s], protocols[s], msg.negotiate) IN
    [state |-> turn.state, reply |-> turn.reply, external_addr |-> msg.external_addr,
     ok |-> Readable(s, m) /\ msg.ok /\ turn.ok /\ Encodable(turn.reply)]

\* Side s takes datagram m from the network, which may keep a copy of it, and
\* sends the datagrams `out`.
Transfer(s, m, out) ==
    /\ m \in wire[s]
    /\ \/ /\ wire' = [wire EXCEPT ![s] = @ \ {m}, ![Peer(s)] = @ \cup out]
          /\ UNCHANGED duplicated
       \/ /\ duplicated < MaxDuplicated
          /\ duplicated' = duplicated + 1
          /\ wire' = [wire EXCEPT ![Peer(s)] = @ \cup out]
    /\ UNCHANGED <<lost, io_errors>>

\* negotiate.into_protocol() and the construction of the EfcpChannel.
Outcome(n) ==
    CASE ~ n.finished -> "panicked"
      [] n.finished /\ n.accepted # NoProtocol -> "done"
      [] n.finished /\ n.accepted = NoProtocol -> "no_protocol"

Goto(s, l) == pc' = [pc EXCEPT ![s] = l]

-----------------------------------------------------------------------------
(***************************************************************************)
(* initiator.                                                              *)
(***************************************************************************)

\* dial: the first message.  The list proposed is the socket's.
Dial ==
    /\ pc[I] = "start"
    /\ LET first == Propose(New, protocols[I]) IN
       /\ Encodable(first.reply)
       /\ negotiate' = [negotiate EXCEPT ![I] = first.state]
       /\ wire' = [wire EXCEPT ![R] = @ \cup {HandshakeMessage("msg1", first.reply, NoAddr)}]
    /\ Goto(I, "msg2")
    /\ UNCHANGED <<protocols, external_addr, nonce, faults>>

\* Faulty variant: the third message is only sent when it has something to say.
InitiatorQuiet ==
    /\ pc[I] = "msg2"
    /\ \E m \in wire[I] :
        \E turn \in {Turn(I, m)} :
        LET addr == IF turn.external_addr = NoAddr THEN external_addr[I]
                    ELSE turn.external_addr IN
        /\ turn.ok
        /\ Transfer(I, m, IF turn.reply = NoMessage THEN {}
                          ELSE {HandshakeMessage("msg3", turn.reply, NoAddr)})
        /\ negotiate' = [negotiate EXCEPT ![I] = turn.state]
        /\ external_addr' = [external_addr EXCEPT ![I] = addr]
        /\ Goto(I, IF addr = NoAddr THEN "failed"
                   ELSE IF turn.state.finished THEN Outcome(turn.state) ELSE "negotiate")
    /\ UNCHANGED <<protocols, nonce>>

\* The second message arrives and the third is sent, which ends the handshake;
\* without an external address, the initiator gives up only after that.
InitiatorHandshake ==
    /\ pc[I] = "msg2"
    /\ \E m \in wire[I] :
        \E turn \in {Turn(I, m)} :
        LET addr == IF turn.external_addr = NoAddr THEN external_addr[I]
                    ELSE turn.external_addr IN
        /\ turn.ok
        /\ Transfer(I, m, {HandshakeMessage("msg3", turn.reply, NoAddr)})
        /\ negotiate' = [negotiate EXCEPT ![I] = turn.state]
        /\ external_addr' = [external_addr EXCEPT ![I] = addr]
        /\ Goto(I, IF addr = NoAddr THEN "failed"
                   ELSE IF turn.state.finished THEN Outcome(turn.state) ELSE "negotiate")
    /\ UNCHANGED <<protocols, nonce>>

\* One round of the loop that finishes the negotiation.
InitiatorNegotiate ==
    /\ pc[I] = "negotiate"
    /\ \E m \in wire[I] :
        \E turn \in {Turn(I, m)} :
        LET over == turn.reply = NoMessage IN
        /\ turn.ok
        /\ Transfer(I, m, IF over THEN {} ELSE {TransportMessage(I, turn.reply, NoAddr)})
        /\ nonce' = [nonce EXCEPT ![I] = IF over THEN @ ELSE @ + 1]
        /\ negotiate' = [negotiate EXCEPT ![I] = turn.state]
        /\ Goto(I, IF over \/ turn.state.finished THEN Outcome(turn.state) ELSE "negotiate")
    /\ UNCHANGED <<protocols, external_addr>>

(***************************************************************************)
(* responder.                                                              *)
(***************************************************************************)

\* The first message is answered with the observed address in the second.
ResponderHandshake ==
    /\ pc[R] = "msg1"
    /\ \E m \in wire[R] :
        \E turn \in {Turn(R, m)} :
        /\ turn.ok
        /\ Transfer(R, m, {HandshakeMessage("msg2", turn.reply, external_addr[R])})
        /\ negotiate' = [negotiate EXCEPT ![R] = turn.state]
        /\ external_addr' = [external_addr EXCEPT ![R] = NoAddr]
    /\ Goto(R, "msg3")
    /\ UNCHANGED <<protocols, nonce>>

\* The third message ends the handshake; it and what follows are answered over
\* the encrypted channel for as long as the negotiation has something to say.
ResponderNegotiate ==
    /\ pc[R] \in {"msg3", "negotiate"}
    /\ \E m \in wire[R] :
        \E turn \in {Turn(R, m)} :
        LET over == turn.reply = NoMessage IN
        /\ turn.ok
        /\ Transfer(R, m, IF over THEN {}
                          ELSE {TransportMessage(R, turn.reply, external_addr[R])})
        /\ nonce' = [nonce EXCEPT ![R] = IF over THEN @ ELSE @ + 1]
        /\ negotiate' = [negotiate EXCEPT ![R] = turn.state]
        /\ external_addr' = [external_addr EXCEPT ![R] = IF over THEN @ ELSE NoAddr]
        /\ Goto(R, IF over \/ turn.state.finished THEN Outcome(turn.state) ELSE "negotiate")
    /\ UNCHANGED protocols

(***************************************************************************)
(* Errors.                                                                 *)
(***************************************************************************)

\* dial fails before it sends anything: the first proposal cannot be encoded.
DialFails ==
    /\ pc[I] = "start"
    /\ ~ Encodable(Propose(New, protocols[I]).reply)
    /\ Goto(I, "failed")
    /\ UNCHANGED <<protocols, negotiate, external_addr, nonce, wire, faults>>

\* A datagram that read_message or DiscoChannel::recv cannot decrypt, a message
\* that is a ProtocolError, or an answer that cannot be encoded: the task
\* returns the error.
Refuse(s) ==
    /\ pc[s] \in Waiting
    /\ \E m \in wire[s] :
        /\ ~ Turn(s, m).ok
        /\ Transfer(s, m, {})
    /\ Goto(s, "failed")
    /\ UNCHANGED <<protocols, negotiate, external_addr, nonce>>

\* The UDP socket reports an error to a task that sends or receives.  A send
\* that fails ends the task like a failed receive: nobody sees what it had read.
IoError(s) ==
    /\ pc[s] \in {"start"} \cup Waiting
    /\ io_errors < MaxIoErrors
    /\ io_errors' = io_errors + 1
    /\ Goto(s, "failed")
    /\ UNCHANGED <<protocols, negotiate, external_addr, nonce, wire, lost, duplicated>>

\* The network drops a datagram.
Lose(s) ==
    /\ lost < MaxLost
    /\ lost' = lost + 1
    /\ \E m \in wire[s] : wire' = [wire EXCEPT ![s] = @ \ {m}]
    /\ UNCHANGED <<protocols, pc, negotiate, external_addr, nonce, duplicated, io_errors>>

-----------------------------------------------------------------------------
Init ==
    /\ protocols \in [Sides -> ProtocolLists]
    /\ pc = [s \in Sides |-> IF s = I THEN "start" ELSE "msg1"]
    /\ negotiate = [s \in Sides |-> New]
    /\ external_addr = [s \in Sides |-> IF s = R THEN Observed ELSE NoAddr]
    /\ nonce = [s \in Sides |-> 0]
    /\ wire = [s \in Sides |-> {}]
    /\ lost = 0 /\ duplicated = 0 /\ io_errors = 0

InitiatorStep == Dial \/ DialFails \/ InitiatorHandshake \/ InitiatorNegotiate \/ Refuse(I)
ResponderStep == ResponderHandshake \/ ResponderNegotiate \/ Refuse(R)

Next ==
    \/ InitiatorStep
    \/ ResponderStep
    \/ \E s \in Sides : IoError(s) \/ Lose(s)

Spec == Init /\ [][Next]_vars

\* A task whose datagram has arrived is polled: DtpSocket wakes it.
FairSpec == Spec /\ WF_vars(InitiatorStep) /\ WF_vars(ResponderStep)

-----------------------------------------------------------------------------
(***************************************************************************)
(* Properties.                                                             *)
(***************************************************************************)

Common == Members(protocols[I]) \cap Members(protocols[R])

\* The k-th protocol that side s proposes is known to its peer.
Mutual(s, k) ==
    k \in DOMAIN protocols[s] /\ protocols[s][k] \in Members(protocols[Peer(s)])

\* p is the first mutual protocol when the sides propose in turn.
Preferred(p) ==
    \E k \in DOMAIN protocols[I] \cup DOMAIN protocols[R] :
        /\ \A j \in 1..(k - 1) : ~ Mutual(I, j) /\ ~ Mutual(R, j)
        /\ \/ Mutual(I, k) /\ p = protocols[I][k]
           \/ ~ Mutual(I, k) /\ Mutual(R, k) /\ p = protocols[R][k]

\* Whatever a side returns is the protocol that both support and that comes
\* first when they propose in turn, the initiator first; so two channels that
\* are set up agree, however many datagrams are lost or late, as long as none
\* is delivered twice.
PreferredChosen ==
    duplicated = 0 => \A s \in Sides : pc[s] = "done" => Preferred(negotiate[s].accepted)

\* Err(Negotiation) is only returned when the sides have no protocol in common:
\* a list that runs out first never hides a common protocol of the other one.
FailureJustified ==
    duplicated = 0 => \A s \in Sides : pc[s] = "no_protocol" => Common = {}

\* The assertion in into_protocol holds: both loops are only left with the
\* negotiation finished, whatever the network delivers, and in whatever order.
AssertionHolds == \A s \in Sides : pc[s] # "panicked"

\* A protocol both sides end with is the same one: what a pair of negotiations
\* is asserted to yield by the tests of negotiation.rs.
Agreement ==
    (\A s \in Sides : pc[s] = "done") => negotiate[I].accepted = negotiate[R].accepted

\* Something went wrong outside the negotiation: a fault of the network or of
\* the socket, or a protocol name that does not fit into a packet.
Disturbed ==
    \/ lost + duplicated + io_errors > 0
    \/ \E s \in Sides : Members(protocols[s]) \cap Oversized # {}

\* Undisturbed, connecting always ends, and it ends well on both sides or with
\* no common protocol on both sides.
Connects ==
    <>(\/ \A s \in Sides : pc[s] = "done"
       \/ \A s \in Sides : pc[s] = "no_protocol"
       \/ Disturbed)

\* "The first response from a responder must include the observed address and
\* port": a channel that dial returns knows the address its peer has seen, byte
\* for byte through the packet format, whatever else was duplicated or late.
AddressReported == pc[I] = "done" => external_addr[I] = Observed

================================================================================
