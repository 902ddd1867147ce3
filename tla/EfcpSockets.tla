------------------------------ MODULE EfcpSockets ------------------------------
(***************************************************************************)
(* Several EFCP sockets: EfcpSocket::dial and ::incoming of                *)
(* efcp/src/lib.rs on top of the channels of a DTP socket (dtp/src/dtp.rs).*)
(*                                                                         *)
(* Every pair of sockets uses one channel id.  The tasks of a socket run   *)
(* on one thread, so a poll is atomic; DtpSocket has the interleavings     *)
(* within one.  The sockets have a protocol in common, so a handshake is   *)
(* its three messages; EfcpHandshake has the negotiation.  A message can   *)
(* be read only by the session it was written for: d is the dial it        *)
(* belongs to, r the responder's session.                                  *)
(***************************************************************************)
EXTENDS Integers, Sequences, FiniteSets

CONSTANTS
    Clients,        \* sockets that dial
    Servers,        \* sockets that call incoming in a loop
    MaxDials,       \* bound on the calls of dial
    MaxData,        \* bound on the packets sent over open channels
    MaxDrops,       \* bound on the channels the applications drop
    MaxFaults       \* bound on the datagrams the network loses or delivers twice

ASSUME SocketsAssumption ==
    /\ Clients \cap Servers = {}
    /\ MaxDials \in Nat /\ MaxData \in Nat /\ MaxDrops \in Nat
    /\ MaxFaults \in Nat

Sockets == Clients \cup Servers
Nobody  == "nobody"

VARIABLES
    taken,      \* InnerDtpSocket.channels of each socket: the peers
    queue,      \* connections: the datagrams waiting, for each socket and peer
    incoming,   \* InnerDtpSocket.incoming of each socket
    responder,  \* the task that calls incoming, of each server
    dials,      \* the calls of dial, in order
    open,       \* the EfcpChannels that the applications hold
    wire,       \* the datagrams in flight
    sessions,   \* how many first messages were answered
    data,       \* how many packets were sent over open channels
    drops,      \* how many channels were dropped
    lost, duplicated,
    quiet       \* history: the dial that began on an idle channel and has been
                \* alone since, or 0

tables == <<taken, queue, incoming>>
faults == <<drops, lost, duplicated>>
vars   == <<tables, responder, dials, open, wire, sessions, data, faults, quiet>>

Datagram == [stage: {"msg1", "msg2", "msg3", "data"}, from: Sockets, to: Sockets,
             d: 1..MaxDials, r: Nat]

\* A dial waits for the second message, has returned Ok with the session r, or
\* has returned an error.
Call == [from: Clients, to: Servers, state: {"waiting", "connected", "failed"}, r: Nat]

\* What incoming is doing: waiting for a channel, or in the handshake on one.
Responder == [at: {"accept", "msg1", "msg3"}, peer: Sockets \cup {Nobody},
              d: 0..MaxDials, r: Nat]
Accepting == [at |-> "accept", peer |-> Nobody, d |-> 0, r |-> 0]

EfcpChannel == [owner: Sockets, peer: Sockets, d: 1..MaxDials, r: Nat]

\* The type invariant.
TypeOK ==
    /\ taken \in [Sockets -> SUBSET Sockets]
    /\ queue \in [Sockets -> [Sockets -> Seq(Datagram)]]
    /\ incoming \in [Sockets -> Seq(Sockets)]
    /\ responder \in [Servers -> Responder]
    /\ dials \in Seq(Call)
    /\ open \subseteq EfcpChannel
    /\ wire \subseteq Datagram
    /\ sessions \in Nat /\ data \in 0..MaxData /\ drops \in 0..MaxDrops
    /\ lost + duplicated \in 0..MaxFaults /\ lost \in Nat /\ duplicated \in Nat
    /\ quiet \in 0..MaxDials

-----------------------------------------------------------------------------
(***************************************************************************)
(* The DTP socket.                                                         *)
(***************************************************************************)
Waiting(x) == {d \in DOMAIN dials : dials[d].from = x /\ dials[d].state = "waiting"}

\* The peers with which x is in a handshake: dial or incoming polls the channel.
Shaking(x) ==
    {dials[d].to : d \in Waiting(x)}
        \cup IF x \in Servers /\ responder[x].at # "accept" THEN {responder[x].peer} ELSE {}

\* With those on whose channel the application may be polling for data.
Polled(x) == Shaking(x) \cup {ch.peer : ch \in {c \in open : c.owner = x}}

\* The datagram that x sends on its channel to y.
Msg(stage, x, y, d, r) == [stage |-> stage, from |-> x, to |-> y, d |-> d, r |-> r]

\* The network hands over m, and may keep a copy of it.
Delivered(m) ==
    /\ m \in wire
    /\ \/ wire' = wire \ {m} /\ UNCHANGED <<duplicated, quiet>>
       \/ /\ lost + duplicated < MaxFaults
          /\ duplicated' = duplicated + 1
          /\ quiet' = 0
          /\ UNCHANGED wire
    /\ UNCHANGED <<drops, lost>>

\* poll_channel of some task finds its queue empty and calls poll_recv.
Arrive(x, m) ==
    /\ m.to = x
    /\ \E y \in Polled(x) : queue[x][y] = <<>>
    /\ Delivered(m)
    /\ queue' = [queue EXCEPT ![x][m.from] = Append(@, m)]
    /\ incoming' = [incoming EXCEPT ![x] = IF m.from \in taken[x] THEN @ ELSE Append(@, m.from)]
    /\ UNCHANGED <<taken, responder, dials, open, sessions, data>>

\* Faulty variant: the packets of the channel stay in the queue.
CloseQueue(x, y, q) ==
    /\ taken' = [taken EXCEPT ![x] = @ \ {y}]
    /\ queue' = q
    /\ UNCHANGED incoming

\* Drop for DtpChannel: close.  q is the queues before that.
Close(x, y, q) ==
    /\ taken' = [taken EXCEPT ![x] = @ \ {y}]
    /\ queue' = [q EXCEPT ![x][y] = <<>>]
    /\ UNCHANGED incoming

\* A handle of x on the channel to y is given the oldest datagram.
Popped(x, y) == [queue EXCEPT ![x][y] = Tail(@)]

-----------------------------------------------------------------------------
(***************************************************************************)
(* incoming.                                                               *)
(***************************************************************************)

\* EfcpChannel::responder begins on the channel to y.
Begin(x, y) ==
    responder' = [responder EXCEPT ![x] = [at |-> "msg1", peer |-> y, d |-> 0, r |-> 0]]

\* poll_incoming finds a channel that was announced: it is returned at once, and
\* it is not entered in `channels`.
AcceptFast(x) ==
    /\ responder[x].at = "accept"
    /\ incoming[x] # <<>>
    /\ incoming' = [incoming EXCEPT ![x] = Tail(@)]
    /\ Begin(x, Head(incoming[x]))
    /\ UNCHANGED <<taken, queue, dials, open, wire, sessions, data, faults, quiet>>

\* poll_incoming reads a datagram itself.  Its channel is taken, unless it was
\* taken before: then poll_incoming goes on.
AcceptSlow(x, m) ==
    /\ responder[x].at = "accept"
    /\ incoming[x] = <<>>
    /\ m.to = x
    /\ Delivered(m)
    /\ queue' = [queue EXCEPT ![x][m.from] = Append(@, m)]
    /\ taken' = [taken EXCEPT ![x] = @ \cup {m.from}]
    /\ IF m.from \in taken[x] THEN UNCHANGED responder ELSE Begin(x, m.from)
    /\ UNCHANGED <<incoming, dials, open, sessions, data>>

\* Faulty variant: the third message of any session will do.
ReadsAny(x, m) == responder[x].at = m.stage

\* Does the responder's session read m?  (The first message is not authenticated:
\* that a packet of another kind parses as one by chance is left out.)
Reads(x, m) ==
    \/ responder[x].at = "msg1" /\ m.stage = "msg1"
    \/ responder[x].at = "msg3" /\ m.stage = "msg3" /\ m.r = responder[x].r

\* The state of the responder that has answered m.
Session(x, m) == [responder[x] EXCEPT !.at = "msg3", !.d = m.d, !.r = sessions + 1]

\* The first message is answered.
Answer(x) ==
    LET y == responder[x].peer IN
    /\ responder[x].at = "msg1"
    /\ queue[x][y] # <<>>
    /\ LET m == Head(queue[x][y]) IN
       /\ Reads(x, m)
       /\ sessions' = sessions + 1
       /\ wire' = wire \cup {Msg("msg2", x, y, m.d, sessions')}
       /\ responder' = [responder EXCEPT ![x] = Session(x, m)]
    /\ queue' = Popped(x, y)
    /\ UNCHANGED <<taken, incoming, dials, open, data, faults, quiet>>

\* Faulty variant: the channel is returned after the first message already.
EstablishEarly(x) ==
    LET y == responder[x].peer IN
    /\ responder[x].at # "accept"
    /\ queue[x][y] # <<>>
    /\ Reads(x, Head(queue[x][y]))
    /\ open' = open \cup {[owner |-> x, peer |-> y, d |-> responder[x].d, r |-> responder[x].r]}
    /\ responder' = [responder EXCEPT ![x] = Accepting]
    /\ queue' = Popped(x, y)
    /\ UNCHANGED <<taken, incoming, dials, wire, sessions, data, faults, quiet>>

\* The third message: incoming returns the channel, and is called again.
Establish(x) ==
    LET y == responder[x].peer IN
    /\ responder[x].at = "msg3"
    /\ queue[x][y] # <<>>
    /\ Reads(x, Head(queue[x][y]))
    /\ open' = open \cup {[owner |-> x, peer |-> y, d |-> responder[x].d, r |-> responder[x].r]}
    /\ responder' = [responder EXCEPT ![x] = Accepting]
    /\ queue' = Popped(x, y)
    /\ UNCHANGED <<taken, incoming, dials, wire, sessions, data, faults, quiet>>

\* Any other message: incoming returns the error, and the channel is dropped.
Reject(x) ==
    LET y == responder[x].peer IN
    /\ responder[x].at # "accept"
    /\ queue[x][y] # <<>>
    /\ ~ Reads(x, Head(queue[x][y]))
    /\ Close(x, y, Popped(x, y))
    /\ responder' = [responder EXCEPT ![x] = Accepting]
    /\ UNCHANGED <<dials, open, wire, sessions, data, faults, quiet>>

-----------------------------------------------------------------------------
(***************************************************************************)
(* dial.                                                                   *)
(***************************************************************************)

\* Nobody holds a handle on the channel between x and y, the server waits for
\* one, and nothing is under way or left over where the client would read it.
Idle(x, y) ==
    /\ y \notin Polled(x) /\ x \notin Polled(y)
    /\ responder[y].at = "accept" /\ incoming[y] = <<>>
    /\ wire = {}
    /\ queue[x][y] = <<>>

\* outgoing fails if the channel is taken; otherwise the first message is sent.
Dial(x, y) ==
    LET d    == Len(dials) + 1
        free == y \notin taken[x] IN
    /\ d <= MaxDials
    /\ dials' = Append(dials, [from |-> x, to |-> y, r |-> 0,
                               state |-> IF free THEN "waiting" ELSE "failed"])
    /\ taken' = [taken EXCEPT ![x] = @ \cup {y}]
    /\ wire' = IF free THEN wire \cup {Msg("msg1", x, y, d, 0)} ELSE wire
    /\ quiet' = IF Idle(x, y) THEN d ELSE 0
    /\ UNCHANGED <<queue, incoming, responder, open, sessions, data, faults>>

\* Faulty variant: the third message is left out.
ConnectQuietly(d) ==
    LET x == dials[d].from
        y == dials[d].to IN
    /\ dials[d].state = "waiting"
    /\ queue[x][y] # <<>>
    /\ LET m == Head(queue[x][y]) IN
       /\ m.stage = "msg2" /\ m.d = d
       /\ dials' = [dials EXCEPT ![d].state = "connected", ![d].r = m.r]
       /\ open' = open \cup {[owner |-> x, peer |-> y, d |-> d, r |-> m.r]}
    /\ queue' = Popped(x, y)
    /\ UNCHANGED <<taken, incoming, responder, wire, sessions, data, faults, quiet>>

\* The second message is answered with the third, and dial returns the channel.
Connect(d) ==
    LET x == dials[d].from
        y == dials[d].to IN
    /\ dials[d].state = "waiting"
    /\ queue[x][y] # <<>>
    /\ LET m == Head(queue[x][y]) IN
       /\ m.stage = "msg2" /\ m.d = d
       /\ dials' = [dials EXCEPT ![d].state = "connected", ![d].r = m.r]
       /\ wire' = wire \cup {Msg("msg3", x, y, d, m.r)}
       /\ open' = open \cup {[owner |-> x, peer |-> y, d |-> d, r |-> m.r]}
    /\ queue' = Popped(x, y)
    /\ UNCHANGED <<taken, incoming, responder, sessions, data, faults, quiet>>

\* Any other message: dial returns the error, and the channel is dropped.
GiveUp(d) ==
    LET x == dials[d].from
        y == dials[d].to IN
    /\ dials[d].state = "waiting"
    /\ queue[x][y] # <<>>
    /\ LET m == Head(queue[x][y]) IN ~ (m.stage = "msg2" /\ m.d = d)
    /\ dials' = [dials EXCEPT ![d].state = "failed"]
    /\ Close(x, y, Popped(x, y))
    /\ UNCHANGED <<responder, open, wire, sessions, data, faults, quiet>>

-----------------------------------------------------------------------------
(***************************************************************************)
(* The channels that the applications hold.                                *)
(***************************************************************************)
SendData(ch) ==
    /\ ch \in open
    /\ data < MaxData
    /\ data' = data + 1
    /\ wire' = wire \cup {Msg("data", ch.owner, ch.peer, ch.d, ch.r)}
    /\ quiet' = 0
    /\ UNCHANGED <<tables, responder, dials, open, sessions, faults>>

\* recv returns a packet of the session, or an error; the channel stays open.
RecvData(ch) ==
    /\ ch \in open
    /\ queue[ch.owner][ch.peer] # <<>>
    /\ queue' = Popped(ch.owner, ch.peer)
    /\ quiet' = 0
    /\ UNCHANGED <<taken, incoming, responder, dials, open, wire, sessions, data, faults>>

Drop(ch) ==
    /\ ch \in open
    /\ drops < MaxDrops
    /\ drops' = drops + 1
    /\ open' = open \ {ch}
    /\ Close(ch.owner, ch.peer, queue)
    /\ quiet' = 0
    /\ UNCHANGED <<responder, dials, wire, sessions, data, lost, duplicated>>

Lose(m) ==
    /\ m \in wire
    /\ lost + duplicated < MaxFaults
    /\ lost' = lost + 1
    /\ wire' = wire \ {m}
    /\ quiet' = 0
    /\ UNCHANGED <<tables, responder, dials, open, sessions, data, drops, duplicated>>

-----------------------------------------------------------------------------
Init ==
    /\ taken = [x \in Sockets |-> {}]
    /\ queue = [x \in Sockets |-> [y \in Sockets |-> <<>>]]
    /\ incoming = [x \in Sockets |-> <<>>]
    /\ responder = [x \in Servers |-> Accepting]
    /\ dials = <<>> /\ open = {} /\ wire = {}
    /\ sessions = 0 /\ data = 0 /\ drops = 0 /\ lost = 0 /\ duplicated = 0 /\ quiet = 0

ServerStep(x) ==
    \/ AcceptFast(x) \/ Answer(x) \/ Establish(x) \/ Reject(x)
    \/ \E m \in wire : AcceptSlow(x, m)

DialStep(d) == Connect(d) \/ GiveUp(d)

Network(x) == \E m \in wire : Arrive(x, m)

Next ==
    \/ \E x \in Servers : ServerStep(x)
    \/ \E d \in DOMAIN dials : DialStep(d)
    \/ \E x \in Sockets : Network(x)
    \/ \E x \in Clients, y \in Servers : Dial(x, y)
    \/ \E ch \in open : SendData(ch) \/ RecvData(ch) \/ Drop(ch)
    \/ \E m \in wire : Lose(m)

Spec == Init /\ [][Next]_vars

\* dial and incoming are polled when their socket is readable; the applications
\* need neither send nor receive.
FairSpec ==
    /\ Spec
    /\ \A x \in Servers : WF_vars(ServerStep(x))
    /\ \A d \in 1..MaxDials : WF_vars(d \in DOMAIN dials /\ DialStep(d))
    /\ \A x \in Sockets :
           WF_vars((\E y \in Shaking(x) : queue[x][y] = <<>>) /\ Network(x))

-----------------------------------------------------------------------------
(***************************************************************************)
(* Properties.                                                             *)
(***************************************************************************)

\* O1 and O2 of dtcp/src/lib.rs: no packet of an earlier connection sets one up.
\* A channel that incoming has returned belongs to a dial that its peer made to
\* this socket, that has connected, and to this very session; and every dial is
\* the cause of at most one of them, however often its messages are delivered.
SessionMatched ==
    \A ch \in open : ch.owner \in Servers =>
        /\ dials[ch.d].from = ch.peer /\ dials[ch.d].to = ch.owner
        /\ dials[ch.d].state = "connected" /\ dials[ch.d].r = ch.r

\* A handshake under way is not abandoned by the other side: as long as the
\* network has no faults and the applications only dial, a server that has
\* answered a dial is waited for by that dial, or the third message is on its way
\* to it.  So no other dial, and no channel announced twice, takes it away.
HandshakeAttended ==
    lost + duplicated + data + drops = 0 =>
        \A x \in Servers : responder[x].at = "msg3" =>
            LET y == responder[x].peer
                third == Msg("msg3", y, x, responder[x].d, responder[x].r) IN
            \/ dials[responder[x].d].state = "waiting"
            \/ third \in wire
            \/ \E i \in DOMAIN queue[x][y] : queue[x][y][i] = third

Connected(d) ==
    /\ dials[d].state = "connected"
    /\ \A x \in {dials[d].from, dials[d].to} : \E ch \in open : ch.owner = x /\ ch.d = d

\* Whatever happened before, with messages lost, late or duplicated and channels
\* dropped: a dial on an idle channel, left alone, sets up a channel on both ends.
IdleDialConnects ==
    \A d \in 1..MaxDials :
        (quiet = d) ~> (quiet # d \/ (d \in DOMAIN dials /\ Connected(d)))

\* "Wraps a `DtpSocket` with a secure reliable transport": a dial returns.
DialsReturn ==
    \A d \in 1..MaxDials :
        (d \in DOMAIN dials) ~> (d \in DOMAIN dials /\ dials[d].state # "waiting")

================================================================================
