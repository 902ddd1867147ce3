--------------------------- MODULE EfcpSocketsProofs ---------------------------
(***************************************************************************)
(* Type correctness of EfcpSockets, and that a channel which incoming has  *)
(* returned belongs to the dial and the session it was set up by, for any  *)
(* number of sockets, dials, losses and duplicates.                        *)
(***************************************************************************)
EXTENDS EfcpSockets, SequenceTheorems, TLAPS

-----------------------------------------------------------------------------
(***************************************************************************)
(* Type correctness.                                                       *)
(***************************************************************************)

\* What the type of a responder leaves out: in a handshake it has a peer, and
\* once it has answered it has a dial.
ResponderOK ==
    \A x \in Servers :
        /\ responder[x].at # "accept" => responder[x].peer \in Sockets
        /\ responder[x].at = "msg3" => responder[x].d \in 1..MaxDials

TypeInv == TypeOK /\ ResponderOK /\ Len(dials) <= MaxDials

\* The types of one socket's view of a peer.
LEMMA QueueType ==
    ASSUME TypeOK, NEW x \in Sockets, NEW y \in Sockets
    PROVE  /\ queue[x][y] \in Seq(Datagram)
           /\ queue[x][y] # <<>> => Head(queue[x][y]) \in Datagram /\ Tail(queue[x][y]) \in Seq(Datagram)
BY DEF TypeOK

\* Setting one queue of one socket.
LEMMA SetQueueType ==
    ASSUME NEW q \in [Sockets -> [Sockets -> Seq(Datagram)]],
           NEW x \in Sockets, NEW y \in Sockets, NEW s \in Seq(Datagram)
    PROVE  [q EXCEPT ![x][y] = s] \in [Sockets -> [Sockets -> Seq(Datagram)]]
OBVIOUS

\* A handle takes the oldest datagram.
LEMMA PoppedType ==
    ASSUME TypeOK, NEW x \in Sockets, NEW y \in Sockets, queue[x][y] # <<>>
    PROVE  Popped(x, y) \in [Sockets -> [Sockets -> Seq(Datagram)]]
BY QueueType, SetQueueType DEF Popped, TypeOK

\* A channel is dropped.
LEMMA CloseType ==
    ASSUME TypeOK, NEW x \in Sockets, NEW y \in Sockets,
           NEW q \in [Sockets -> [Sockets -> Seq(Datagram)]], Close(x, y, q)
    PROVE  /\ taken' \in [Sockets -> SUBSET Sockets]
           /\ queue' \in [Sockets -> [Sockets -> Seq(Datagram)]]
           /\ incoming' \in [Sockets -> Seq(Sockets)]
<1>1. <<>> \in Seq(Datagram)
  OBVIOUS
<1>2. [q EXCEPT ![x][y] = <<>>] \in [Sockets -> [Sockets -> Seq(Datagram)]]
  BY <1>1, SetQueueType
<1>3. QED
  BY <1>2 DEF Close, TypeOK

\* The network delivers a datagram.
LEMMA DeliveredType ==
    ASSUME TypeOK, NEW m, Delivered(m)
    PROVE  /\ m \in Datagram
           /\ wire' \subseteq Datagram /\ drops' \in 0..MaxDrops
           /\ lost' + duplicated' \in 0..MaxFaults /\ lost' \in Nat /\ duplicated' \in Nat
           /\ quiet' \in 0..MaxDials
BY SocketsAssumption DEF TypeOK, Delivered

\* Its datagram joins the queue of its sender.
LEMMA QueuedType ==
    ASSUME TypeOK, NEW x \in Sockets, NEW m \in Datagram,
           queue' = [queue EXCEPT ![x][m.from] = Append(@, m)]
    PROVE  queue' \in [Sockets -> [Sockets -> Seq(Datagram)]]
<1>1. m.from \in Sockets
  BY DEF Datagram
<1>2. Append(queue[x][m.from], m) \in Seq(Datagram)
  BY <1>1, QueueType
<1>3. QED
  BY <1>1, <1>2, SetQueueType DEF TypeOK

\* All state keeps its type, and a responder that has answered has a dial.
LEMMA TypeInvariant == Spec => []TypeInv
<1>1. Init => TypeInv
  BY SocketsAssumption DEF Init, TypeInv, TypeOK, ResponderOK, Accepting, Responder
<1>2. ASSUME TypeInv, [Next]_vars PROVE TypeInv'
  <2>0. TypeOK /\ ResponderOK /\ Len(dials) <= MaxDials
    BY <1>2 DEF TypeInv
  <2>s. Servers \subseteq Sockets /\ Clients \subseteq Sockets
    BY DEF Sockets
  <2>d. \A d \in DOMAIN dials : /\ dials[d] \in Call /\ d \in 1..MaxDials
                                /\ dials[d].from \in Sockets /\ dials[d].to \in Sockets
    <3>1. \A d \in DOMAIN dials : dials[d] \in Call /\ d \in 1..MaxDials
      BY <2>0, SocketsAssumption DEF TypeOK
    <3>2. QED
      BY <3>1, <2>s DEF Call
  <2>r. \A x \in Servers : responder[x] \in Responder
    BY <2>0 DEF TypeOK
  <2>1. ASSUME NEW x \in Servers, AcceptFast(x) PROVE TypeInv'
    <3>1. Head(incoming[x]) \in Sockets /\ Tail(incoming[x]) \in Seq(Sockets)
      BY <2>0, <2>s, <2>1 DEF AcceptFast, TypeOK
    <3>2. incoming' \in [Sockets -> Seq(Sockets)]
      BY <2>0, <2>1, <3>1 DEF AcceptFast, TypeOK
    <3>3. [at |-> "msg1", peer |-> Head(incoming[x]), d |-> 0, r |-> 0] \in Responder
      BY <3>1, SocketsAssumption DEF Responder
    <3>4. responder' \in [Servers -> Responder] /\ ResponderOK'
      BY <2>0, <2>1, <3>1, <3>3 DEF AcceptFast, Begin, TypeOK, ResponderOK
    <3>5. QED
      BY <2>0, <2>1, <3>2, <3>4 DEF AcceptFast, TypeInv, TypeOK, faults
  <2>2. ASSUME NEW x \in Servers, NEW m \in wire, AcceptSlow(x, m) PROVE TypeInv'
    <3>1. m \in Datagram /\ m.from \in Sockets
      BY <2>0, <2>2 DEF TypeOK, Datagram
    <3>2. queue' \in [Sockets -> [Sockets -> Seq(Datagram)]]
      BY <2>0, <2>s, <2>2, <3>1, QueuedType DEF AcceptSlow
    <3>3. taken' \in [Sockets -> SUBSET Sockets]
      BY <2>0, <2>2, <3>1 DEF AcceptSlow, TypeOK
    <3>4. [at |-> "msg1", peer |-> m.from, d |-> 0, r |-> 0] \in Responder
      BY <3>1, SocketsAssumption DEF Responder
    <3>5. responder' \in [Servers -> Responder] /\ ResponderOK'
      <4>1. CASE m.from \in taken[x]
        BY <2>0, <2>2, <4>1 DEF AcceptSlow, TypeOK, ResponderOK
      <4>2. CASE m.from \notin taken[x]
        <5>1. Begin(x, m.from)
          BY <2>2, <4>2 DEF AcceptSlow
        <5>2. QED
          BY <2>0, <3>1, <3>4, <5>1 DEF Begin, TypeOK, ResponderOK
      <4>3. QED
        BY <4>1, <4>2
    <3>6. QED
      BY <2>0, <2>2, <3>2, <3>3, <3>5, DeliveredType DEF AcceptSlow, TypeInv, TypeOK
  <2>3. ASSUME NEW x \in Servers, Answer(x) PROVE TypeInv'
    <3> DEFINE y == responder[x].peer
               m == Head(queue[x][y])
    <3>1. y \in Sockets /\ queue[x][y] # <<>>
      BY <2>0, <2>3 DEF Answer, ResponderOK
    <3>2. m \in Datagram /\ m.d \in 1..MaxDials
      <4>1. m \in Datagram
        BY <2>0, <2>s, <3>1, QueueType
      <4>2. QED
        BY <4>1 DEF Datagram
    <3>3. /\ sessions' = sessions + 1
          /\ wire' = wire \cup {Msg("msg2", x, y, m.d, sessions')}
          /\ responder' = [responder EXCEPT ![x] = Session(x, m)]
          /\ queue' = Popped(x, y)
      BY <2>3 DEF Answer
    <3>4. sessions' \in Nat
      BY <2>0, <3>3 DEF TypeOK
    <3>5. Msg("msg2", x, y, m.d, sessions') \in Datagram
      BY <2>s, <3>1, <3>2, <3>4 DEF Msg, Datagram
    <3>6. Session(x, m) \in Responder /\ Session(x, m).peer \in Sockets /\ Session(x, m).d \in 1..MaxDials
      <4>1. m.d \in 0..MaxDials
        BY <3>2
      <4>2. QED
        BY <2>r, <3>1, <3>2, <3>3, <3>4, <4>1 DEF Session, Responder
    <3>7. responder' \in [Servers -> Responder] /\ ResponderOK'
      BY <2>0, <3>3, <3>6 DEF TypeOK, ResponderOK
    <3>8. queue' \in [Sockets -> [Sockets -> Seq(Datagram)]]
      BY <2>0, <2>s, <3>1, <3>3, PoppedType
    <3>9. QED
      BY <2>0, <2>3, <3>3, <3>4, <3>5, <3>7, <3>8 DEF Answer, TypeInv, TypeOK, faults
  <2>a. Accepting \in Responder /\ Accepting.at = "accept"
    BY SocketsAssumption DEF Accepting, Responder
  <2>4. ASSUME NEW x \in Servers, Establish(x) PROVE TypeInv'
    <3> DEFINE y == responder[x].peer
               ch == [owner |-> x, peer |-> y, d |-> responder[x].d, r |-> responder[x].r]
    <3>1. y \in Sockets /\ queue[x][y] # <<>> /\ responder[x].d \in 1..MaxDials
      BY <2>0, <2>4 DEF Establish, ResponderOK
    <3>2. ch \in EfcpChannel
      BY <2>r, <2>s, <3>1 DEF EfcpChannel, Responder
    <3>3. open' = open \cup {ch} /\ queue' = Popped(x, y)
      BY <2>4 DEF Establish
    <3>4. queue' \in [Sockets -> [Sockets -> Seq(Datagram)]]
      BY <2>0, <2>s, <3>1, <3>3, PoppedType
    <3>5. responder' \in [Servers -> Responder] /\ ResponderOK'
      BY <2>0, <2>4, <2>a DEF Establish, TypeOK, ResponderOK
    <3>6. QED
      BY <2>0, <2>4, <3>2, <3>3, <3>4, <3>5 DEF Establish, TypeInv, TypeOK, faults
  <2>5. ASSUME NEW x \in Servers, Reject(x) PROVE TypeInv'
    <3> DEFINE y == responder[x].peer
    <3>1. y \in Sockets /\ queue[x][y] # <<>> /\ Close(x, y, Popped(x, y))
      BY <2>0, <2>5 DEF Reject, ResponderOK
    <3>2. Popped(x, y) \in [Sockets -> [Sockets -> Seq(Datagram)]]
      BY <2>0, <2>s, <3>1, PoppedType
    <3>3. responder' \in [Servers -> Responder] /\ ResponderOK'
      BY <2>0, <2>5, <2>a DEF Reject, TypeOK, ResponderOK
    <3>4. QED
      BY <2>0, <2>s, <2>5, <3>1, <3>2, <3>3, CloseType DEF Reject, TypeInv, TypeOK, faults
  <2>6. ASSUME NEW d \in DOMAIN dials, Connect(d) PROVE TypeInv'
    <3> DEFINE x == dials[d].from
               y == dials[d].to
               m == Head(queue[x][y])
    <3>1. x \in Sockets /\ y \in Sockets /\ queue[x][y] # <<>> /\ d \in 1..MaxDials
      BY <2>d, <2>6 DEF Connect
    <3>2. m \in Datagram /\ m.r \in Nat
      <4>1. m \in Datagram
        BY <2>0, <3>1, QueueType
      <4>2. QED
        BY <4>1 DEF Datagram
    <3>3. /\ dials' = [dials EXCEPT ![d].state = "connected", ![d].r = m.r]
          /\ wire' = wire \cup {Msg("msg3", x, y, d, m.r)}
          /\ open' = open \cup {[owner |-> x, peer |-> y, d |-> d, r |-> m.r]}
          /\ queue' = Popped(x, y)
      BY <2>6 DEF Connect
    <3>4. [dials[d] EXCEPT !.state = "connected", !.r = m.r] \in Call
      BY <2>d, <3>2 DEF Call
    <3>5. dials' \in Seq(Call) /\ Len(dials') = Len(dials)
      <4>1. dials \in Seq(Call)
        BY <2>0 DEF TypeOK
      <4>2. dials' = [dials EXCEPT ![d] = [dials[d] EXCEPT !.state = "connected", !.r = m.r]]
        BY <2>d, <3>3, <4>1 DEF Call
      <4>3. QED
        BY <3>4, <4>1, <4>2
    <3>6. Msg("msg3", x, y, d, m.r) \in Datagram
      BY <3>1, <3>2 DEF Msg, Datagram
    <3>7. [owner |-> x, peer |-> y, d |-> d, r |-> m.r] \in EfcpChannel
      BY <3>1, <3>2 DEF EfcpChannel
    <3>8. queue' \in [Sockets -> [Sockets -> Seq(Datagram)]]
      BY <2>0, <3>1, <3>3, PoppedType
    <3>9. ResponderOK'
      BY <2>0, <2>6 DEF Connect, ResponderOK
    <3>10. QED
      BY <2>0, <2>6, <3>3, <3>5, <3>6, <3>7, <3>8, <3>9 DEF Connect, TypeInv, TypeOK, faults
  <2>7. ASSUME NEW d \in DOMAIN dials, GiveUp(d) PROVE TypeInv'
    <3> DEFINE x == dials[d].from
               y == dials[d].to
    <3>1. x \in Sockets /\ y \in Sockets /\ queue[x][y] # <<>> /\ Close(x, y, Popped(x, y))
      BY <2>d, <2>7 DEF GiveUp
    <3>2. Popped(x, y) \in [Sockets -> [Sockets -> Seq(Datagram)]]
      BY <2>0, <3>1, PoppedType
    <3>3. [dials[d] EXCEPT !.state = "failed"] \in Call
      BY <2>d DEF Call
    <3>4. dials' \in Seq(Call) /\ Len(dials') = Len(dials)
      BY <2>0, <2>7, <3>3 DEF TypeOK, GiveUp
    <3>5. ResponderOK'
      BY <2>0, <2>7 DEF GiveUp, ResponderOK
    <3>6. QED
      BY <2>0, <2>7, <3>1, <3>2, <3>4, <3>5, CloseType DEF GiveUp, TypeInv, TypeOK, faults
  <2>8. ASSUME NEW x \in Sockets, NEW m \in wire, Arrive(x, m) PROVE TypeInv'
    <3>1. m \in Datagram /\ m.from \in Sockets
      BY <2>0, <2>8 DEF TypeOK, Datagram
    <3>2. queue' \in [Sockets -> [Sockets -> Seq(Datagram)]]
      BY <2>0, <2>8, <3>1, QueuedType DEF Arrive
    <3>3. incoming' \in [Sockets -> Seq(Sockets)]
      <4>1. incoming[x] \in Seq(Sockets) /\ Append(incoming[x], m.from) \in Seq(Sockets)
        BY <2>0, <3>1 DEF TypeOK
      <4>2. QED
        BY <2>0, <2>8, <4>1 DEF Arrive, TypeOK
    <3>4. ResponderOK'
      BY <2>0, <2>8 DEF Arrive, ResponderOK
    <3>5. QED
      BY <2>0, <2>8, <3>2, <3>3, <3>4, DeliveredType DEF Arrive, TypeInv, TypeOK
  <2>9. ASSUME NEW x \in Clients, NEW y \in Servers, Dial(x, y) PROVE TypeInv'
    <3> DEFINE d == Len(dials) + 1
               call == [from |-> x, to |-> y, r |-> 0,
                        state |-> IF y \notin taken[x] THEN "waiting" ELSE "failed"]
    <3>1. d \in 1..MaxDials /\ call \in Call
      BY <2>0, <2>9, SocketsAssumption DEF Dial, TypeOK, Call
    <3>2. dials' \in Seq(Call) /\ Len(dials') <= MaxDials
      BY <2>0, <2>9, <3>1 DEF Dial, TypeOK
    <3>3. Msg("msg1", x, y, d, 0) \in Datagram
      BY <2>s, <3>1 DEF Msg, Datagram
    <3>4. wire' \subseteq Datagram /\ taken' \in [Sockets -> SUBSET Sockets]
      BY <2>0, <2>s, <2>9, <3>3 DEF Dial, TypeOK
    <3>5. quiet' \in 0..MaxDials
      BY <2>9, <3>1, SocketsAssumption DEF Dial
    <3>6. ResponderOK'
      BY <2>0, <2>9 DEF Dial, ResponderOK
    <3>7. QED
      BY <2>0, <2>9, <3>2, <3>4, <3>5, <3>6 DEF Dial, TypeInv, TypeOK, faults
  <2>10. ASSUME NEW ch \in open, SendData(ch) PROVE TypeInv'
    <3>1. Msg("data", ch.owner, ch.peer, ch.d, ch.r) \in Datagram
      BY <2>0 DEF TypeOK, EfcpChannel, Msg, Datagram
    <3>2. wire' \subseteq Datagram /\ data' \in 0..MaxData /\ quiet' \in 0..MaxDials
      BY <2>0, <2>10, <3>1, SocketsAssumption DEF SendData, TypeOK
    <3>3. ResponderOK'
      BY <2>0, <2>10 DEF SendData, ResponderOK
    <3>4. QED
      BY <2>0, <2>10, <3>2, <3>3 DEF SendData, TypeInv, TypeOK, faults, tables
  <2>11. ASSUME NEW ch \in open, RecvData(ch) PROVE TypeInv'
    <3>1. ch.owner \in Sockets /\ ch.peer \in Sockets
      BY <2>0 DEF TypeOK, EfcpChannel
    <3>2. queue' \in [Sockets -> [Sockets -> Seq(Datagram)]]
      BY <2>0, <2>11, <3>1, PoppedType DEF RecvData
    <3>3. ResponderOK' /\ quiet' \in 0..MaxDials
      BY <2>0, <2>11, SocketsAssumption DEF RecvData, ResponderOK
    <3>4. QED
      BY <2>0, <2>11, <3>2, <3>3 DEF RecvData, TypeInv, TypeOK, faults
  <2>12. ASSUME NEW ch \in open, Drop(ch) PROVE TypeInv'
    <3>1. ch.owner \in Sockets /\ ch.peer \in Sockets /\ queue \in [Sockets -> [Sockets -> Seq(Datagram)]]
      BY <2>0 DEF TypeOK, EfcpChannel
    <3>2. /\ taken' \in [Sockets -> SUBSET Sockets]
          /\ queue' \in [Sockets -> [Sockets -> Seq(Datagram)]]
          /\ incoming' \in [Sockets -> Seq(Sockets)]
      BY <2>0, <2>12, <3>1, CloseType DEF Drop
    <3>3. ResponderOK' /\ quiet' \in 0..MaxDials /\ drops' \in 0..MaxDrops
      BY <2>0, <2>12, SocketsAssumption DEF Drop, ResponderOK, TypeOK
    <3>4. QED
      BY <2>0, <2>12, <3>2, <3>3 DEF Drop, TypeInv, TypeOK
  <2>13. ASSUME NEW m \in wire, Lose(m) PROVE TypeInv'
    <3>1. /\ wire' \subseteq Datagram /\ quiet' \in 0..MaxDials
          /\ lost' + duplicated' \in 0..MaxFaults /\ lost' \in Nat /\ duplicated' \in Nat
      BY <2>0, <2>13, SocketsAssumption DEF Lose, TypeOK
    <3>2. ResponderOK'
      BY <2>0, <2>13 DEF Lose, ResponderOK
    <3>3. QED
      BY <2>0, <2>13, <3>1, <3>2 DEF Lose, TypeInv, TypeOK, tables
  <2>14. CASE UNCHANGED vars
    BY <2>0, <2>14 DEF TypeInv, TypeOK, ResponderOK, vars, tables, faults
  <2>15. QED
    BY <1>2, <2>1, <2>2, <2>3, <2>4, <2>5, <2>6, <2>7, <2>8, <2>9, <2>10, <2>11, <2>12, <2>13, <2>14
       DEF Next, ServerStep, DialStep, Network
<1>3. QED
  BY <1>1, <1>2, PTL DEF Spec

\* The tables, tasks, datagrams and histories of the sockets keep their types.
THEOREM TypeCorrect == Spec => []TypeOK
BY TypeInvariant, PTL DEF TypeInv

-----------------------------------------------------------------------------
(***************************************************************************)
(* Sessions.  SessionMatched is not inductive: the third message has to be *)
(* traced back to the dial that sent it, and the session it names to the   *)
(* first message that was answered.                                        *)
(***************************************************************************)

\* The datagrams in flight and those that wait to be read.
Flying ==
    wire \cup UNION {UNION {{queue[x][y][i] : i \in DOMAIN queue[x][y]} : y \in Sockets} :
                        x \in Sockets}

\* What waits for x on its channel to y was sent by y to x.
Placed ==
    \A x, y \in Sockets : \A i \in DOMAIN queue[x][y] :
        queue[x][y][i].to = x /\ queue[x][y][i].from = y

\* A first message names the dial that sent it.
FirstCause ==
    \A m \in Flying : m.stage = "msg1" =>
        m.d \in DOMAIN dials /\ dials[m.d].from = m.from /\ dials[m.d].to = m.to

\* A third message was sent by a dial that has connected, in that session.
ThirdCause ==
    \A m \in Flying : m.stage = "msg3" =>
        m.d \in DOMAIN dials /\ dials[m.d].state = "connected" /\ dials[m.d].r = m.r

\* A responder waits for the third message of a dial of its peer to it.
AnswerCause ==
    \A x \in Servers : responder[x].at = "msg3" =>
        /\ responder[x].d \in DOMAIN dials
        /\ dials[responder[x].d].from = responder[x].peer /\ dials[responder[x].d].to = x

\* Session r was answered to dial d, as a message or an end of it shows.
InSession(d, r) ==
    \/ \E m \in Flying : m.stage = "msg2" /\ m.d = d /\ m.r = r
    \/ \E x \in Servers : responder[x].at = "msg3" /\ responder[x].d = d /\ responder[x].r = r
    \/ d \in DOMAIN dials /\ dials[d].state = "connected" /\ dials[d].r = r

\* A session number was given out, and to one dial.
OneDial ==
    \A d \in 1..MaxDials, r \in Nat : InSession(d, r) =>
        r \in 1..sessions /\ \A e \in 1..MaxDials : InSession(e, r) => e = d

\* The channels that servers hold are of dials that were made.
OpenDialled == \A ch \in open : ch.owner \in Servers => ch.d \in DOMAIN dials

SessionInv ==
    /\ Placed /\ FirstCause /\ ThirdCause /\ AnswerCause /\ OneDial
    /\ OpenDialled /\ SessionMatched

\* A step puts a datagram on a queue only from the wire, on the channel it names.
Moves ==
    \A x, y \in Sockets : \A i \in DOMAIN queue'[x][y] :
        \/ \E j \in DOMAIN queue[x][y] : queue[x][y][j] = queue'[x][y][i]
        \/ /\ queue'[x][y][i] \in wire
           /\ queue'[x][y][i].to = x /\ queue'[x][y][i].from = y

\* What is flying after such a step was flying before, or was sent by it.
LEMMA FlyingStep ==
    ASSUME NEW W, wire' \subseteq wire \cup W, Moves
    PROVE  /\ \A m \in Flying' : m \in Flying \/ m \in W
           /\ Placed => Placed'
<1>1. \A m : m \in Flying <=>
          m \in wire \/ \E x, y \in Sockets : \E i \in DOMAIN queue[x][y] : m = queue[x][y][i]
  BY DEF Flying
<1>2. \A m : m \in Flying' <=>
          m \in wire' \/ \E x, y \in Sockets : \E i \in DOMAIN queue'[x][y] : m = queue'[x][y][i]
  BY DEF Flying
<1>3. \A m \in Flying' : m \in Flying \/ m \in W
  BY <1>1, <1>2 DEF Moves
<1>4. QED
  BY <1>3 DEF Placed, Moves

\* The oldest datagram of a queue is flying, and what is waiting is a datagram.
LEMMA HeadFlies ==
    ASSUME TypeOK, Placed, NEW x \in Sockets, NEW y \in Sockets, queue[x][y] # <<>>
    PROVE  /\ Head(queue[x][y]) \in Flying /\ Head(queue[x][y]) \in Datagram
           /\ Head(queue[x][y]).to = x /\ Head(queue[x][y]).from = y
<1>1. queue[x][y] \in Seq(Datagram)
  BY QueueType
<1>2. 1 \in DOMAIN queue[x][y] /\ Head(queue[x][y]) = queue[x][y][1]
  BY <1>1
<1>3. Head(queue[x][y]) \in Datagram
  BY QueueType
<1>4. QED
  BY <1>2, <1>3 DEF Flying, Placed

\* Taking the oldest datagram, with or without closing the channel.
LEMMA PoppedMoves ==
    ASSUME TypeOK, NEW x \in Sockets, NEW y \in Sockets, queue[x][y] # <<>>,
           queue' = Popped(x, y) \/ Close(x, y, Popped(x, y))
    PROVE  Moves
<1>1. /\ queue[x][y] \in Seq(Datagram) /\ DOMAIN queue = Sockets
      /\ \A u \in Sockets : DOMAIN queue[u] = Sockets
  BY QueueType DEF TypeOK
<1>2. \A i \in DOMAIN Tail(queue[x][y]) :
          i + 1 \in DOMAIN queue[x][y] /\ Tail(queue[x][y])[i] = queue[x][y][i + 1]
  BY <1>1
<1>3. \A u, v \in Sockets : \/ queue'[u][v] = queue[u][v]
                            \/ u = x /\ v = y /\ queue'[u][v] \in {Tail(queue[x][y]), <<>>}
  BY <1>1 DEF Popped, Close
<1>4. QED
  BY <1>2, <1>3 DEF Moves

\* A datagram joins the queue of its sender.
LEMMA QueuedMoves ==
    ASSUME TypeOK, NEW x \in Sockets, NEW m \in wire, m.to = x,
           queue' = [queue EXCEPT ![x][m.from] = Append(@, m)]
    PROVE  Moves
<1>0. m \in Datagram /\ m.from \in Sockets
  BY DEF TypeOK, Datagram
<1>1. /\ queue[x][m.from] \in Seq(Datagram) /\ DOMAIN queue = Sockets
      /\ \A u \in Sockets : DOMAIN queue[u] = Sockets
  BY <1>0, QueueType DEF TypeOK
<1>2. \A i \in DOMAIN Append(queue[x][m.from], m) :
          \/ i \in DOMAIN queue[x][m.from] /\ Append(queue[x][m.from], m)[i] = queue[x][m.from][i]
          \/ Append(queue[x][m.from], m)[i] = m
  BY <1>0, <1>1
<1>3. \A u, v \in Sockets :
          \/ queue'[u][v] = queue[u][v]
          \/ u = x /\ v = m.from /\ queue'[u][v] = Append(queue[x][m.from], m)
  BY <1>0, <1>1
<1>4. SUFFICES ASSUME NEW u \in Sockets, NEW v \in Sockets, NEW i \in DOMAIN queue'[u][v]
               PROVE  \/ \E j \in DOMAIN queue[u][v] : queue[u][v][j] = queue'[u][v][i]
                      \/ /\ queue'[u][v][i] \in wire
                         /\ queue'[u][v][i].to = u /\ queue'[u][v][i].from = v
  BY DEF Moves
<1>5. CASE queue'[u][v] = queue[u][v]
  BY <1>4, <1>5
<1>6. CASE u = x /\ v = m.from /\ queue'[u][v] = Append(queue[x][m.from], m)
  BY <1>2, <1>4, <1>6
<1>7. QED
  BY <1>3, <1>5, <1>6

\* A channel is dropped.
LEMMA CloseMoves ==
    ASSUME TypeOK, NEW x \in Sockets, NEW y \in Sockets, Close(x, y, queue)
    PROVE  Moves
<1>1. DOMAIN queue = Sockets /\ \A u \in Sockets : DOMAIN queue[u] = Sockets
  BY DEF TypeOK
<1>2. \A u, v \in Sockets : queue'[u][v] = queue[u][v] \/ queue'[u][v] = <<>>
  BY <1>1 DEF Close
<1>3. QED
  BY <1>2 DEF Moves

\* Every message and every end of a session can be traced to the dial behind it.
LEMMA SessionInvariant == Spec => []SessionInv
<1>1. Init => SessionInv
  <2>1. Init => Flying = {}
    BY DEF Init, Flying
  <2>2. Init => \A d, r : ~ InSession(d, r)
    BY <2>1 DEF Init, InSession, Accepting
  <2>3. QED
    BY <2>1, <2>2 DEF Init, SessionInv, Placed, FirstCause, ThirdCause, AnswerCause, OneDial,
                      OpenDialled, SessionMatched, Accepting
<1>2. ASSUME TypeInv, TypeInv', SessionInv, [Next]_vars PROVE SessionInv'
  <2>0. TypeOK /\ ResponderOK /\ Len(dials) <= MaxDials /\ sessions \in Nat
    BY <1>2 DEF TypeInv, TypeOK
  <2>s. Servers \subseteq Sockets /\ Clients \subseteq Sockets
    BY DEF Sockets
  <2>d. \A d \in DOMAIN dials : /\ dials[d] \in Call /\ d \in 1..MaxDials
                                /\ dials[d].from \in Clients /\ dials[d].to \in Servers
    <3>1. \A d \in DOMAIN dials : dials[d] \in Call /\ d \in 1..MaxDials
      BY <2>0, SocketsAssumption DEF TypeOK
    <3>2. QED
      BY <3>1 DEF Call
  <2>v. /\ Placed /\ FirstCause /\ ThirdCause /\ AnswerCause /\ OneDial
        /\ OpenDialled /\ SessionMatched
    BY <1>2 DEF SessionInv
  \* A step that makes no session, message of a handshake, or channel of a server.
  <2>1. ASSUME UNCHANGED <<dials, sessions>>, Placed',
               \A m \in Flying' : m \in Flying \/ m.stage = "data",
               \A x \in Servers : responder'[x].at = "msg3" => responder'[x] = responder[x],
               \A ch \in open' : ch \in open
        PROVE  SessionInv'
    <3>1. FirstCause' /\ ThirdCause' /\ AnswerCause' /\ OpenDialled' /\ SessionMatched'
      BY <2>1, <2>v DEF FirstCause, ThirdCause, AnswerCause, OpenDialled, SessionMatched
    <3>2. \A d, r : InSession(d, r)' => InSession(d, r)
      BY <2>1 DEF InSession
    <3>3. OneDial'
      BY <2>1, <2>v, <3>2 DEF OneDial
    <3>4. QED
      BY <2>1, <3>1, <3>3 DEF SessionInv
  <2>2. ASSUME NEW x \in Servers, AcceptFast(x) PROVE SessionInv'
    <3>1. Moves /\ UNCHANGED wire
      BY <2>2 DEF AcceptFast, Moves
    <3>2. \A z \in Servers : responder'[z].at = "msg3" => responder'[z] = responder[z]
      BY <2>0, <2>2 DEF AcceptFast, Begin, TypeOK
    <3>3. QED
      BY <2>1, <2>2, <2>v, <3>1, <3>2, FlyingStep DEF AcceptFast
  <2>3. ASSUME NEW x \in Servers, NEW m \in wire, AcceptSlow(x, m) PROVE SessionInv'
    <3>1. Moves /\ wire' \subseteq wire
      BY <2>0, <2>s, <2>3, QueuedMoves DEF AcceptSlow, Delivered
    <3>2. \A z \in Servers : responder'[z].at = "msg3" => responder'[z] = responder[z]
      BY <2>0, <2>3 DEF AcceptSlow, Begin, TypeOK
    <3>3. QED
      BY <2>1, <2>3, <2>v, <3>1, <3>2, FlyingStep DEF AcceptSlow
  <2>4. ASSUME NEW x \in Servers, Reject(x) PROVE SessionInv'
    <3>1. Moves /\ wire' = wire
      BY <2>0, <2>s, <2>4, PoppedMoves DEF Reject, ResponderOK
    <3>2. \A z \in Servers : responder'[z].at = "msg3" => responder'[z] = responder[z]
      BY <2>0, <2>4 DEF Reject, Accepting, TypeOK
    <3>3. QED
      BY <2>1, <2>4, <2>v, <3>1, <3>2, FlyingStep DEF Reject
  <2>5. ASSUME NEW x \in Sockets, NEW m \in wire, Arrive(x, m) PROVE SessionInv'
    <3>1. Moves /\ wire' \subseteq wire
      BY <2>0, <2>5, QueuedMoves DEF Arrive, Delivered
    <3>2. QED
      BY <2>1, <2>5, <2>v, <3>1, FlyingStep DEF Arrive
  <2>6. ASSUME NEW ch \in open, SendData(ch) PROVE SessionInv'
    <3> DEFINE m == Msg("data", ch.owner, ch.peer, ch.d, ch.r)
    <3>1. Moves /\ wire' = wire \cup {m} /\ m.stage = "data"
      BY <2>6 DEF SendData, Moves, tables, Msg
    <3>2. Placed' /\ \A n \in Flying' : n \in Flying \/ n \in {m}
      BY <2>v, <3>1, FlyingStep
    <3>3. QED
      BY <2>1, <2>6, <3>1, <3>2 DEF SendData
  <2>7. ASSUME NEW ch \in open, RecvData(ch) PROVE SessionInv'
    <3>1. ch.owner \in Sockets /\ ch.peer \in Sockets
      BY <2>0 DEF TypeOK, EfcpChannel
    <3>2. Moves /\ wire' = wire
      BY <2>0, <2>7, <3>1, PoppedMoves DEF RecvData
    <3>3. QED
      BY <2>1, <2>7, <2>v, <3>2, FlyingStep DEF RecvData
  <2>8. ASSUME NEW ch \in open, Drop(ch) PROVE SessionInv'
    <3>1. ch.owner \in Sockets /\ ch.peer \in Sockets
      BY <2>0 DEF TypeOK, EfcpChannel
    <3>2. Moves /\ wire' = wire
      BY <2>0, <2>8, <3>1, CloseMoves DEF Drop
    <3>3. QED
      BY <2>1, <2>8, <2>v, <3>2, FlyingStep DEF Drop
  <2>9. ASSUME NEW m \in wire, Lose(m) PROVE SessionInv'
    <3>1. Moves /\ wire' \subseteq wire
      BY <2>9 DEF Lose, Moves, tables
    <3>2. QED
      BY <2>1, <2>9, <2>v, <3>1, FlyingStep DEF Lose
  <2>10. CASE UNCHANGED vars
    <3>1. Moves /\ wire' = wire
      BY <2>10 DEF vars, tables, Moves
    <3>2. QED
      BY <2>1, <2>10, <2>v, <3>1, FlyingStep DEF vars
  <2>11. ASSUME NEW x \in Servers, Answer(x) PROVE SessionInv'
    <3> DEFINE y == responder[x].peer
               m == Head(queue[x][y])
               a == Msg("msg2", x, y, m.d, sessions + 1)
    <3>1. y \in Sockets /\ queue[x][y] # <<>> /\ queue' = Popped(x, y) /\ m.stage = "msg1"
      BY <2>0, <2>11 DEF Answer, ResponderOK, Reads
    <3>2. /\ sessions' = sessions + 1 /\ wire' = wire \cup {a}
          /\ UNCHANGED <<dials, open>>
          /\ responder' = [responder EXCEPT ![x] = Session(x, m)]
      BY <2>11 DEF Answer
    <3>3. /\ m \in Flying /\ m.to = x /\ m.from = y /\ m.d \in 1..MaxDials
      <4>1. /\ m \in Flying /\ m.to = x /\ m.from = y /\ m \in Datagram
        BY <2>0, <2>s, <2>v, <3>1, HeadFlies
      <4>2. QED
        BY <4>1 DEF Datagram
    <3>4. /\ a.stage = "msg2" /\ a.d = m.d /\ a.r = sessions + 1
      BY DEF Msg
    <3>5. Moves
      BY <2>0, <2>s, <3>1, PoppedMoves
    <3>6. Placed' /\ \A n \in Flying' : n \in Flying \/ n = a
      <4>1. Placed' /\ \A n \in Flying' : n \in Flying \/ n \in {a}
        BY <2>v, <3>2, <3>5, FlyingStep
      <4>2. QED
        BY <4>1
    <3>7. /\ responder'[x].at = "msg3" /\ responder'[x].peer = y
          /\ responder'[x].d = m.d /\ responder'[x].r = sessions + 1
          /\ \A z \in Servers : z # x => responder'[z] = responder[z]
      <4>1. responder[x] \in Responder
        BY <2>0 DEF TypeOK
      <4>2. QED
        BY <2>0, <3>2, <4>1 DEF Session, Responder, TypeOK
    <3>8. FirstCause' /\ ThirdCause' /\ OpenDialled' /\ SessionMatched'
      BY <2>v, <3>2, <3>4, <3>6 DEF FirstCause, ThirdCause, OpenDialled, SessionMatched
    <3>9. AnswerCause'
      BY <2>v, <3>1, <3>2, <3>3, <3>7 DEF AnswerCause, FirstCause
    <3>10. \A d, r : InSession(d, r)' => InSession(d, r) \/ (d = m.d /\ r = sessions + 1)
      BY <3>2, <3>4, <3>6, <3>7 DEF InSession
    <3>11. OneDial'
      <4>1. \A d \in 1..MaxDials : ~ InSession(d, sessions + 1)
        BY <2>0, <2>v DEF OneDial
      <4>2. SUFFICES ASSUME NEW d \in 1..MaxDials, NEW r \in Nat, InSession(d, r)'
                     PROVE  /\ r \in 1..sessions'
                            /\ \A e \in 1..MaxDials : InSession(e, r)' => e = d
        BY DEF OneDial
      <4>3. CASE r = sessions + 1
        BY <2>0, <3>2, <3>10, <4>1, <4>2, <4>3
      <4>4. CASE r # sessions + 1
        <5>1. /\ InSession(d, r)
              /\ \A e \in 1..MaxDials : InSession(e, r)' => InSession(e, r)
          BY <3>10, <4>2, <4>4
        <5>2. QED
          BY <2>0, <2>v, <3>2, <5>1 DEF OneDial
      <4>5. QED
        BY <4>3, <4>4
    <3>12. QED
      BY <3>6, <3>8, <3>9, <3>11 DEF SessionInv
  <2>12. ASSUME NEW x \in Servers, Establish(x) PROVE SessionInv'
    <3> DEFINE y == responder[x].peer
               m == Head(queue[x][y])
               r == responder[x].r
               ch == [owner |-> x, peer |-> y, d |-> responder[x].d, r |-> r]
    <3>1. /\ y \in Sockets /\ queue[x][y] # <<>> /\ queue' = Popped(x, y)
          /\ responder[x].at = "msg3" /\ m.stage = "msg3" /\ m.r = r
      BY <2>0, <2>12 DEF Establish, ResponderOK, Reads
    <3>2. /\ open' = open \cup {ch} /\ UNCHANGED <<wire, dials, sessions>>
          /\ \A z \in Servers : responder'[z].at = "msg3" => responder'[z] = responder[z]
      BY <2>0, <2>12 DEF Establish, Accepting, TypeOK
    <3>3. Moves
      BY <2>0, <2>s, <3>1, PoppedMoves
    <3>4. Placed' /\ \A n \in Flying' : n \in Flying
      <4>1. Placed' /\ \A n \in Flying' : n \in Flying \/ n \in {}
        BY <2>v, <3>2, <3>3, FlyingStep
      <4>2. QED
        BY <4>1
    <3>5. m \in Flying
      BY <2>0, <2>s, <2>v, <3>1, HeadFlies
    <3>6. /\ m.d \in DOMAIN dials /\ dials[m.d].state = "connected" /\ dials[m.d].r = r
      BY <2>v, <3>1, <3>5 DEF ThirdCause
    <3>7. responder[x].d = m.d
      <4>1. InSession(m.d, r) /\ InSession(responder[x].d, r)
        BY <3>1, <3>6 DEF InSession
      <4>2. responder[x].d \in 1..MaxDials /\ m.d \in 1..MaxDials /\ r \in Nat
        <5>1. responder[x] \in Responder
          BY <2>0 DEF TypeOK
        <5>2. QED
          BY <2>0, <2>d, <3>1, <3>6, <5>1 DEF ResponderOK, Responder
      <4>3. QED
        BY <2>v, <4>1, <4>2 DEF OneDial
    <3>8. /\ dials[ch.d].from = ch.peer /\ dials[ch.d].to = ch.owner /\ ch.d \in DOMAIN dials
          /\ dials[ch.d].state = "connected" /\ dials[ch.d].r = ch.r
      BY <2>v, <3>1, <3>6, <3>7 DEF AnswerCause
    <3>9. OpenDialled' /\ SessionMatched'
      BY <2>v, <3>2, <3>8 DEF OpenDialled, SessionMatched
    <3>10. FirstCause' /\ ThirdCause' /\ AnswerCause'
      BY <2>v, <3>2, <3>4 DEF FirstCause, ThirdCause, AnswerCause
    <3>11. \A d, s : InSession(d, s)' => InSession(d, s)
      BY <3>2, <3>4 DEF InSession
    <3>12. OneDial'
      BY <2>v, <3>2, <3>11 DEF OneDial
    <3>13. QED
      BY <3>4, <3>9, <3>10, <3>12 DEF SessionInv
  \* A dial that has connected keeps its session, and every dial its two ends.
  <2>13. ASSUME DOMAIN dials \subseteq DOMAIN dials', UNCHANGED <<responder, sessions>>, Placed',
                \A d \in DOMAIN dials : dials'[d].from = dials[d].from /\ dials'[d].to = dials[d].to
                                        /\ (dials[d].state = "connected" => dials'[d] = dials[d]),
                \A ch \in open' : ch \in open \/ ch.owner \notin Servers,
                FirstCause', ThirdCause',
                \A d, r : InSession(d, r)' => InSession(d, r)
         PROVE  SessionInv'
    <3>1. AnswerCause' /\ OpenDialled' /\ SessionMatched'
      BY <2>13, <2>v DEF AnswerCause, OpenDialled, SessionMatched
    <3>2. OneDial'
      BY <2>13, <2>v DEF OneDial
    <3>3. QED
      BY <2>13, <3>1, <3>2 DEF SessionInv
  <2>14. ASSUME NEW d \in DOMAIN dials, Connect(d) PROVE SessionInv'
    <3> DEFINE x == dials[d].from
               y == dials[d].to
               m == Head(queue[x][y])
               b == Msg("msg3", x, y, d, m.r)
               ch == [owner |-> x, peer |-> y, d |-> d, r |-> m.r]
    <3>1. /\ x \in Sockets /\ y \in Sockets /\ x \notin Servers
          /\ queue[x][y] # <<>> /\ queue' = Popped(x, y)
          /\ dials[d].state = "waiting" /\ m.stage = "msg2" /\ m.d = d
      BY <2>d, <2>s, <2>14, SocketsAssumption DEF Connect
    <3>2. /\ dials' = [dials EXCEPT ![d].state = "connected", ![d].r = m.r]
          /\ wire' = wire \cup {b} /\ open' = open \cup {ch} /\ UNCHANGED <<responder, sessions>>
      BY <2>14 DEF Connect
    <3>3. /\ DOMAIN dials' = DOMAIN dials
          /\ dials'[d].from = x /\ dials'[d].to = y
          /\ dials'[d].state = "connected" /\ dials'[d].r = m.r
          /\ \A e \in DOMAIN dials : e # d => dials'[e] = dials[e]
      <4>1. dials \in Seq(Call)
        BY <2>0 DEF TypeOK
      <4>2. QED
        BY <2>d, <3>2, <4>1 DEF Call
    <3>4. m \in Flying
      BY <2>0, <2>v, <3>1, HeadFlies
    <3>5. b.stage = "msg3" /\ b.d = d /\ b.r = m.r
      BY DEF Msg
    <3>6. Placed' /\ \A n \in Flying' : n \in Flying \/ n = b
      <4>1. Moves
        BY <2>0, <3>1, PoppedMoves
      <4>2. Placed' /\ \A n \in Flying' : n \in Flying \/ n \in {b}
        BY <2>v, <3>2, <4>1, FlyingStep
      <4>3. QED
        BY <4>2
    <3>7. FirstCause'
      BY <2>v, <3>3, <3>5, <3>6 DEF FirstCause
    <3>8. ThirdCause'
      BY <2>v, <3>1, <3>3, <3>5, <3>6 DEF ThirdCause
    <3>9. \A e, r : InSession(e, r)' => InSession(e, r)
      <4>1. InSession(d, m.r)
        BY <3>1, <3>4 DEF InSession
      <4>2. SUFFICES ASSUME NEW e, NEW r, InSession(e, r)' PROVE InSession(e, r)
        OBVIOUS
      <4>3. CASE \E n \in Flying' : n.stage = "msg2" /\ n.d = e /\ n.r = r
        BY <3>5, <3>6, <4>3 DEF InSession
      <4>4. CASE e \in DOMAIN dials' /\ dials'[e].state = "connected" /\ dials'[e].r = r
        BY <3>3, <4>1, <4>4 DEF InSession
      <4>5. CASE \E z \in Servers : /\ responder'[z].at = "msg3"
                                    /\ responder'[z].d = e /\ responder'[z].r = r
        BY <3>2, <4>5 DEF InSession
      <4>6. QED
        BY <4>2, <4>3, <4>4, <4>5 DEF InSession
    <3>10. \A c \in open' : c \in open \/ c.owner \notin Servers
      BY <3>1, <3>2
    <3>11. QED
      BY <2>13, <3>1, <3>2, <3>3, <3>6, <3>7, <3>8, <3>9, <3>10
  <2>15. ASSUME NEW d \in DOMAIN dials, GiveUp(d) PROVE SessionInv'
    <3> DEFINE x == dials[d].from
               y == dials[d].to
    <3>1. /\ x \in Sockets /\ y \in Sockets /\ queue[x][y] # <<>>
          /\ Close(x, y, Popped(x, y)) /\ dials[d].state = "waiting"
          /\ dials' = [dials EXCEPT ![d].state = "failed"]
          /\ UNCHANGED <<wire, open, responder, sessions>>
      BY <2>d, <2>s, <2>15 DEF GiveUp
    <3>2. /\ DOMAIN dials' = DOMAIN dials
          /\ dials'[d].from = x /\ dials'[d].to = y /\ dials'[d].state = "failed"
          /\ \A e \in DOMAIN dials : e # d => dials'[e] = dials[e]
      <4>1. dials \in Seq(Call)
        BY <2>0 DEF TypeOK
      <4>2. QED
        BY <2>d, <3>1, <4>1 DEF Call
    <3>3. Placed' /\ \A n \in Flying' : n \in Flying
      <4>1. Moves
        BY <2>0, <3>1, PoppedMoves
      <4>2. Placed' /\ \A n \in Flying' : n \in Flying \/ n \in {}
        BY <2>v, <3>1, <4>1, FlyingStep
      <4>3. QED
        BY <4>2
    <3>4. FirstCause' /\ ThirdCause'
      BY <2>v, <3>1, <3>2, <3>3 DEF FirstCause, ThirdCause
    <3>5. \A e, r : InSession(e, r)' => InSession(e, r)
      BY <3>1, <3>2, <3>3 DEF InSession
    <3>6. QED
      BY <2>13, <3>1, <3>2, <3>3, <3>4, <3>5
  <2>16. ASSUME NEW x \in Clients, NEW y \in Servers, Dial(x, y) PROVE SessionInv'
    <3> DEFINE d == Len(dials) + 1
               a == Msg("msg1", x, y, d, 0)
    <3>1. /\ wire' \subseteq wire \cup {a} /\ UNCHANGED <<queue, open, responder, sessions>>
          /\ dials' = Append(dials, [from |-> x, to |-> y, r |-> 0,
                                     state |-> IF y \notin taken[x] THEN "waiting" ELSE "failed"])
      BY <2>16 DEF Dial
    <3>2. /\ DOMAIN dials' = DOMAIN dials \cup {d} /\ d \notin DOMAIN dials
          /\ dials'[d].from = x /\ dials'[d].to = y /\ dials'[d].state # "connected"
          /\ \A e \in DOMAIN dials : dials'[e] = dials[e]
      <4>1. dials \in Seq(Call)
        BY <2>0 DEF TypeOK
      <4>2. QED
        BY <3>1, <4>1
    <3>3. a.stage = "msg1" /\ a.d = d /\ a.from = x /\ a.to = y
      BY DEF Msg
    <3>4. Placed' /\ \A n \in Flying' : n \in Flying \/ n = a
      <4>1. Moves
        BY <3>1 DEF Moves
      <4>2. Placed' /\ \A n \in Flying' : n \in Flying \/ n \in {a}
        BY <2>v, <3>1, <4>1, FlyingStep
      <4>3. QED
        BY <4>2
    <3>5. FirstCause' /\ ThirdCause'
      BY <2>v, <3>2, <3>3, <3>4 DEF FirstCause, ThirdCause
    <3>6. \A e, r : InSession(e, r)' => InSession(e, r)
      BY <3>1, <3>2, <3>3, <3>4 DEF InSession
    <3>7. QED
      BY <2>13, <3>1, <3>2, <3>4, <3>5, <3>6
  <2>17. QED
    BY <1>2, <2>2, <2>3, <2>4, <2>5, <2>6, <2>7, <2>8, <2>9, <2>10, <2>11, <2>12, <2>14, <2>15, <2>16
       DEF Next, ServerStep, DialStep, Network
<1>3. QED
  BY <1>1, <1>2, TypeInvariant, PTL DEF Spec

\* A channel that incoming has returned belongs to a dial that its peer made to
\* this socket, that has connected, and to this very session: messages that are
\* lost, late or delivered twice and channels dropped and dialled again set up no
\* other, for any number of sockets and dials.
THEOREM SessionsMatched == Spec => []SessionMatched
BY SessionInvariant, PTL DEF SessionInv
-----------------------------------------------------------------------------
(***************************************************************************)
(* Handshakes under way.  HandshakeAttended is about runs without faults,  *)
(* data and drops; in those, a client keeps the channel of a dial that has *)
(* not failed, so a pair of sockets has one such dial and at most one of   *)
(* its messages flies.                                                     *)
(***************************************************************************)
Calm == lost + duplicated + data + drops = 0

\* m is a datagram between x and y.
Between(m, x, y) == \/ m.from = x /\ m.to = y
                    \/ m.from = y /\ m.to = x

\* At most one datagram flies between two sockets, and it is in one place.
Lone ==
    /\ \A m, n \in Flying : Between(m, n.from, n.to) => m = n
    /\ \A m \in wire : queue[m.to][m.from] = <<>>
    /\ \A x, y \in Sockets : Len(queue[x][y]) <= 1

\* Dial d has not failed, and is one of x to y.
Lives(d, x, y) ==
    d \in DOMAIN dials /\ dials[d].state # "failed" /\ dials[d].from = x /\ dials[d].to = y

\* The client of a dial that has not failed holds the channel, so there is no other.
Claimed ==
    \A x \in Clients, y \in Servers, d \in DOMAIN dials : Lives(d, x, y) =>
        y \in taken[x] /\ \A e \in DOMAIN dials : Lives(e, x, y) => e = d

\* Server x has answered dial d of y in session r and waits for the third message.
Awaits(x, y, d, r) ==
    /\ responder[x].at = "msg3" /\ responder[x].peer = y
    /\ responder[x].d = d /\ responder[x].r = r

\* A datagram is a message of a live dial, which is where that message finds it.
Backed(m) ==
    \/ /\ m.stage = "msg1" /\ Lives(m.d, m.from, m.to) /\ dials[m.d].state = "waiting"
    \/ /\ m.stage = "msg2" /\ Lives(m.d, m.to, m.from) /\ dials[m.d].state = "waiting"
       /\ Awaits(m.from, m.to, m.d, m.r)
    \/ /\ m.stage = "msg3" /\ Lives(m.d, m.from, m.to) /\ dials[m.d].state = "connected"
       /\ Awaits(m.to, m.from, m.d, m.r)

\* A server that has answered is attended: its answer or what it waits for flies.
Attended(x) ==
    LET y == responder[x].peer
        d == responder[x].d
        r == responder[x].r IN
    responder[x].at = "msg3" =>
        /\ Lives(d, y, x)
        /\ \/ dials[d].state = "waiting" /\ Msg("msg2", x, y, d, r) \in Flying
           \/ Msg("msg3", y, x, d, r) \in Flying

\* A channel is of a live dial that has connected; once the server holds it, nothing
\* flies between the two.
Held(ch) ==
    /\ ch.owner \in Clients => Lives(ch.d, ch.owner, ch.peer) /\ dials[ch.d].state = "connected"
    /\ ch.owner \in Servers => /\ Lives(ch.d, ch.peer, ch.owner)
                               /\ \A m \in Flying : ~ Between(m, ch.owner, ch.peer)

Orderly ==
    /\ Lone /\ Claimed
    /\ \A m \in Flying : Backed(m)
    /\ \A x \in Servers : Attended(x)
    /\ \A ch \in open : Held(ch)

AttendInv == Calm => Orderly

\* Where a flying datagram is.
LEMMA Whereabouts ==
    ASSUME TypeOK, Placed
    PROVE  /\ Flying \subseteq Datagram
           /\ \A m : m \in Flying <=>
                \/ m \in wire
                \/ /\ m.to \in Sockets /\ m.from \in Sockets
                   /\ \E i \in DOMAIN queue[m.to][m.from] : m = queue[m.to][m.from][i]
<1>1. \A m : m \in Flying <=>
          m \in wire \/ \E x, y \in Sockets : \E i \in DOMAIN queue[x][y] : m = queue[x][y][i]
  BY DEF Flying
<1>2. \A x, y \in Sockets : \A i \in DOMAIN queue[x][y] : queue[x][y][i] \in Datagram
  BY QueueType
<1>3. Flying \subseteq Datagram
  BY <1>1, <1>2 DEF TypeOK
<1>4. QED
  BY <1>1, <1>3 DEF Placed

\* Where one that flies after a step is.
LEMMA WhereaboutsNext ==
    ASSUME Placed'
    PROVE  \A m : m \in Flying' <=>
                \/ m \in wire'
                \/ /\ m.to \in Sockets /\ m.from \in Sockets
                   /\ \E i \in DOMAIN queue'[m.to][m.from] : m = queue'[m.to][m.from][i]
<1>1. \A m : m \in Flying' <=>
          m \in wire' \/ \E x, y \in Sockets : \E i \in DOMAIN queue'[x][y] : m = queue'[x][y][i]
  BY DEF Flying
<1>2. \A x, y \in Sockets : \A i \in DOMAIN queue'[x][y] :
          queue'[x][y][i].to = x /\ queue'[x][y][i].from = y
  BY DEF Placed
<1>3. QED
  BY <1>1, <1>2

\* A queue of a single datagram is empty once that is taken.
LEMMA PopLast ==
    ASSUME TypeOK, Lone, NEW x \in Sockets, NEW y \in Sockets, queue[x][y] # <<>>,
           queue' = Popped(x, y)
    PROVE  /\ queue'[x][y] = <<>>
           /\ DOMAIN queue[x][y] = {1} /\ Head(queue[x][y]) = queue[x][y][1]
           /\ \A u, v \in Sockets : u # x \/ v # y => queue'[u][v] = queue[u][v]
<1>1. queue[x][y] \in Seq(Datagram) /\ Len(queue[x][y]) <= 1
  BY QueueType DEF Lone
<1>2. PICK q \in Seq(Datagram) : q = queue[x][y]
  BY <1>1
<1>3. Len(q) = 1 /\ DOMAIN q = {1} /\ Head(q) = q[1] /\ Tail(q) = <<>>
  <2>1. q # <<>> /\ Len(q) <= 1
    BY <1>1, <1>2
  <2>2. Len(q) = 1
    <3>1. Len(q) # 0
      BY <2>1, EmptySeq, Zenon
    <3>2. PICK k \in Nat : k = Len(q)
      OBVIOUS
    <3>3. k <= 1 /\ k # 0
      BY <2>1, <3>1, <3>2
    <3>4. k = 1
      BY <3>3
    <3>5. QED
      BY <3>2, <3>4
  <2>3. DOMAIN q = {1} /\ Head(q) = q[1]
    BY <2>2
  <2>4. Tail(q) \in Seq(Datagram) /\ Len(Tail(q)) = 0
    BY <2>1, <2>2
  <2>5. Tail(q) = <<>>
    BY <2>4, EmptySeq
  <2>6. QED
    BY <2>2, <2>3, <2>5
<1>4. /\ queue'[x][y] = Tail(q)
      /\ \A u, v \in Sockets : u # x \/ v # y => queue'[u][v] = queue[u][v]
  BY <1>2 DEF Popped, TypeOK
<1>5. QED
  BY <1>2, <1>3, <1>4

\* A step takes m, the only datagram between x and y, and sends W.
Exchanged(x, y, m, W) ==
    /\ Lone'
    /\ \A n : n \in Flying' <=> n \in W \/ (n \in Flying /\ n # m)
    /\ \A n \in Flying : n # m => ~ Between(n, x, y)
    /\ m \in Flying /\ m.to = x /\ m.from = y

\* The datagram that is taken was the only one between its two ends, and what is
\* sent in answer is the only one after that.
LEMMA Answered ==
    ASSUME TypeOK, TypeOK', Placed, Placed', Lone, NEW x \in Sockets, NEW y \in Sockets,
           queue[x][y] # <<>>, queue' = Popped(x, y), NEW m, m = Head(queue[x][y]),
           NEW w \in Datagram, Between(w, x, y), NEW W, W = {} \/ W = {w}, wire' = wire \cup W
    PROVE  Exchanged(x, y, m, W)
<1>1. /\ queue'[x][y] = <<>>
      /\ DOMAIN queue[x][y] = {1} /\ m = queue[x][y][1]
      /\ \A u, v \in Sockets : u # x \/ v # y => queue'[u][v] = queue[u][v]
  BY PopLast
<1>2. m \in Flying /\ m.to = x /\ m.from = y
  BY HeadFlies
<1>3. \A n \in Flying : n # m => ~ Between(n, x, y)
  BY <1>2 DEF Lone, Between
<1>4. m \notin wire
  BY <1>2 DEF Lone
<1>5. \A n : n \in Flying' <=> n \in W \/ (n \in Flying /\ n # m)
  <2>1. \A n : n \in Flying <=>
            \/ n \in wire
            \/ /\ n.to \in Sockets /\ n.from \in Sockets
               /\ \E i \in DOMAIN queue[n.to][n.from] : n = queue[n.to][n.from][i]
    BY Whereabouts
  <2>2. \A n : n \in Flying' <=>
            \/ n \in wire'
            \/ /\ n.to \in Sockets /\ n.from \in Sockets
               /\ \E i \in DOMAIN queue'[n.to][n.from] : n = queue'[n.to][n.from][i]
    BY WhereaboutsNext
  <2>3. SUFFICES ASSUME NEW n PROVE n \in Flying' <=> n \in W \/ (n \in Flying /\ n # m)
    OBVIOUS
  <2>4. CASE n.to = x /\ n.from = y
    <3>1. ~ \E i \in DOMAIN queue'[n.to][n.from] : n = queue'[n.to][n.from][i]
      BY <1>1, <2>4
    <3>2. (\E i \in DOMAIN queue[n.to][n.from] : n = queue[n.to][n.from][i]) <=> n = m
      BY <1>1, <2>4
    <3>3. QED
      BY <1>4, <2>1, <2>2, <2>4, <3>1, <3>2
  <2>5. CASE ~ (n.to = x /\ n.from = y)
    <3>1. n # m
      BY <1>2, <2>5
    <3>2. n.to \in Sockets /\ n.from \in Sockets => queue'[n.to][n.from] = queue[n.to][n.from]
      BY <1>1, <2>5
    <3>3. QED
      BY <2>1, <2>2, <3>1, <3>2
  <2>6. QED
    BY <2>4, <2>5
<1>6. \A u, v \in Sockets : Len(queue'[u][v]) <= 1
  <2>1. Len(<<>>) <= 1
    OBVIOUS
  <2>2. QED
    BY <1>1, <2>1 DEF Lone
<1>7. \A n, k \in Flying' : Between(n, k.from, k.to) => n = k
  <2>1. SUFFICES ASSUME NEW n \in Flying', NEW k \in Flying', Between(n, k.from, k.to)
                 PROVE  n = k
    OBVIOUS
  <2>2. CASE n \in W /\ k \in W
    BY <2>2
  <2>3. CASE n \in W /\ k \in Flying /\ k # m
    <3>1. Between(k, x, y)
      BY <2>1, <2>3 DEF Between
    <3>2. QED
      BY <1>3, <2>3, <3>1
  <2>4. CASE k \in W /\ n \in Flying /\ n # m
    <3>1. Between(n, x, y)
      BY <2>1, <2>4 DEF Between
    <3>2. QED
      BY <1>3, <2>4, <3>1
  <2>5. CASE k \in Flying /\ n \in Flying
    BY <2>1, <2>5 DEF Lone
  <2>6. QED
    BY <1>5, <2>1, <2>2, <2>3, <2>4, <2>5
<1>8. \A n \in wire' : queue'[n.to][n.from] = <<>>
  <2>1. SUFFICES ASSUME NEW n \in wire' PROVE queue'[n.to][n.from] = <<>>
    OBVIOUS
  <2>2. n.to \in Sockets /\ n.from \in Sockets
    BY <2>1 DEF TypeOK, Datagram
  <2>3. CASE n \in wire
    BY <1>1, <2>2, <2>3 DEF Lone
  <2>4. CASE n \in W /\ n.to = x /\ n.from = y
    BY <1>1, <2>4
  <2>5. CASE n \in W /\ n.to = y /\ n.from = x /\ x # y
    <3>1. queue[y][x] = <<>>
      <4>1. SUFFICES ASSUME queue[y][x] # <<>> PROVE FALSE
        OBVIOUS
      <4>2. PICK h : h = Head(queue[y][x])
        OBVIOUS
      <4>3. h \in Flying /\ h.to = y /\ h.from = x
        BY <4>1, <4>2, HeadFlies
      <4>4. Between(h, x, y) /\ h # m
        BY <1>2, <2>5, <4>3 DEF Between
      <4>5. QED
        BY <1>3, <4>3, <4>4
    <3>2. QED
      BY <1>1, <2>5, <3>1
  <2>6. n \in W => Between(n, x, y)
    OBVIOUS
  <2>7. QED
    BY <2>1, <2>3, <2>4, <2>5, <2>6 DEF Between
<1>9. Lone'
  BY <1>6, <1>7, <1>8 DEF Lone
<1>10. QED
  BY <1>2, <1>3, <1>5, <1>9 DEF Exchanged

\* A datagram that is delivered once flies on, in the queue.
LEMMA DeliveredOnce ==
    ASSUME TypeOK, TypeOK', Placed, Placed', Lone, NEW x \in Sockets, NEW m \in wire, m.to = x,
           wire' = wire \ {m}, queue' = [queue EXCEPT ![x][m.from] = Append(@, m)]
    PROVE  Lone' /\ \A n : n \in Flying' <=> n \in Flying
<1>1. m \in Datagram /\ m.from \in Sockets /\ m.to \in Sockets
  BY DEF TypeOK, Datagram
<1>2. PICK y \in Sockets : y = m.from
  BY <1>1
<1>3. queue[x][y] = <<>>
  BY <1>2 DEF Lone
<1>4. /\ queue'[x][y] = <<m>>
      /\ \A u, v \in Sockets : u # x \/ v # y => queue'[u][v] = queue[u][v]
  <2>1. /\ queue'[x][y] = Append(queue[x][y], m)
        /\ \A u, v \in Sockets : u # x \/ v # y => queue'[u][v] = queue[u][v]
    BY <1>2 DEF TypeOK
  <2>2. Append(<<>>, m) = <<m>>
    OBVIOUS
  <2>3. QED
    BY <1>3, <2>1, <2>2
<1>5. \A n : n \in Flying' <=> n \in Flying
  <2>1. \A n : n \in Flying <=>
            \/ n \in wire
            \/ /\ n.to \in Sockets /\ n.from \in Sockets
               /\ \E i \in DOMAIN queue[n.to][n.from] : n = queue[n.to][n.from][i]
    BY Whereabouts
  <2>2. \A n : n \in Flying' <=>
            \/ n \in wire'
            \/ /\ n.to \in Sockets /\ n.from \in Sockets
               /\ \E i \in DOMAIN queue'[n.to][n.from] : n = queue'[n.to][n.from][i]
    BY WhereaboutsNext
  <2>3. SUFFICES ASSUME NEW n PROVE n \in Flying' <=> n \in Flying
    OBVIOUS
  <2>4. CASE n.to = x /\ n.from = y
    <3>1. ~ \E i \in DOMAIN queue[n.to][n.from] : n = queue[n.to][n.from][i]
      BY <1>3, <2>4
    <3>2. (\E i \in DOMAIN queue'[n.to][n.from] : n = queue'[n.to][n.from][i]) <=> n = m
      <4>1. DOMAIN <<m>> = {1} /\ <<m>>[1] = m
        OBVIOUS
      <4>2. QED
        BY <1>4, <2>4, <4>1
    <3>3. n \in Flying <=> n \in wire
      BY <2>1, <3>1
    <3>4. n \in Flying' <=> n \in wire' \/ n = m
      BY <1>1, <2>2, <3>2
    <3>5. QED
      BY <3>3, <3>4
  <2>5. CASE ~ (n.to = x /\ n.from = y)
    <3>1. n # m
      BY <1>2, <2>5
    <3>2. n.to \in Sockets /\ n.from \in Sockets => queue'[n.to][n.from] = queue[n.to][n.from]
      BY <1>4, <2>5
    <3>3. n \in wire' <=> n \in wire
      BY <3>1
    <3>4. n.to \in Sockets /\ n.from \in Sockets =>
              ((\E i \in DOMAIN queue'[n.to][n.from] : n = queue'[n.to][n.from][i])
                   <=> (\E i \in DOMAIN queue[n.to][n.from] : n = queue[n.to][n.from][i]))
      BY <3>2
    <3>5. n \in Flying <=>
              \/ n \in wire
              \/ /\ n.to \in Sockets /\ n.from \in Sockets
                 /\ \E i \in DOMAIN queue[n.to][n.from] : n = queue[n.to][n.from][i]
      BY <2>1
    <3>6. n \in Flying' <=>
              \/ n \in wire'
              \/ /\ n.to \in Sockets /\ n.from \in Sockets
                 /\ \E i \in DOMAIN queue'[n.to][n.from] : n = queue'[n.to][n.from][i]
      BY <2>2
    <3>7. QED
      BY <3>3, <3>4, <3>5, <3>6
  <2>6. QED
    BY <2>4, <2>5
<1>6. \A u, v \in Sockets : Len(queue'[u][v]) <= 1
  <2>1. Len(<<m>>) <= 1
    OBVIOUS
  <2>2. QED
    BY <1>4, <2>1 DEF Lone
<1>7. \A n \in wire' : queue'[n.to][n.from] = <<>>
  <2>1. SUFFICES ASSUME NEW n \in wire, n # m PROVE queue'[n.to][n.from] = <<>>
    OBVIOUS
  <2>2. n.to \in Sockets /\ n.from \in Sockets /\ n \in Flying /\ m \in Flying
    BY <2>1 DEF TypeOK, Datagram, Flying
  <2>3. ~ (n.to = x /\ n.from = y)
    BY <1>2, <2>1, <2>2 DEF Lone, Between
  <2>4. QED
    BY <1>4, <2>1, <2>2, <2>3 DEF Lone
<1>8. Lone'
  BY <1>5, <1>6, <1>7 DEF Lone
<1>9. QED
  BY <1>5, <1>8

\* What the calls of dial are.
LEMMA Calls ==
    ASSUME TypeOK
    PROVE  /\ \A d \in DOMAIN dials : dials[d].from \in Clients /\ dials[d].to \in Servers
           /\ \A d \in DOMAIN dials : dials[d].state \in {"waiting", "connected", "failed"}
           /\ \A x : ~ (x \in Clients /\ x \in Servers)
           /\ Clients \subseteq Sockets /\ Servers \subseteq Sockets
<1>1. \A d \in DOMAIN dials : dials[d] \in Call
  BY DEF TypeOK
<1>2. QED
  BY <1>1, SocketsAssumption DEF Call, Sockets

\* A step that sends nothing and moves neither a dial nor a handshake.
LEMMA StillOrderly ==
    ASSUME Orderly, Lone', \A n : n \in Flying' <=> n \in Flying,
           UNCHANGED <<dials, open>>, TypeOK,
           \A x \in Clients : taken[x] \subseteq taken'[x],
           \A x \in Servers : \/ responder'[x] = responder[x]
                              \/ responder[x].at # "msg3" /\ responder'[x].at # "msg3"
    PROVE  Orderly'
<1>0. \A d \in DOMAIN dials : dials[d].from \in Clients /\ dials[d].to \in Servers
  BY Calls
<1>1. \A d, x, y : Lives(d, x, y)' <=> Lives(d, x, y)
  BY DEF Lives
<1>2. Claimed'
  BY <1>0, <1>1 DEF Orderly, Claimed
<1>3. \A x \in Servers : \A y, d, r : Awaits(x, y, d, r) => Awaits(x, y, d, r)'
  BY DEF Awaits
<1>4. \A m \in Flying' : Backed(m)'
  <2>1. SUFFICES ASSUME NEW m \in Flying, Backed(m) PROVE Backed(m)'
    BY DEF Orderly
  <2>2. Lives(m.d, m.to, m.from) => m.from \in Servers
    BY <1>0 DEF Lives
  <2>3. Lives(m.d, m.from, m.to) => m.to \in Servers
    BY <1>0 DEF Lives
  <2>4. QED
    BY <1>1, <1>3, <2>1, <2>2, <2>3 DEF Backed
<1>5. \A x \in Servers : Attended(x)'
  BY <1>1 DEF Orderly, Attended
<1>6. \A ch \in open' : Held(ch)'
  BY <1>1 DEF Orderly, Held
<1>7. QED
  BY <1>2, <1>4, <1>5, <1>6 DEF Orderly

\* The first message is answered.
LEMMA AnswerOrderly ==
    ASSUME TypeInv, TypeOK', Placed, Placed', Orderly, NEW x \in Servers, Answer(x)
    PROVE  Orderly'
<1>0. TypeOK /\ ResponderOK /\ Lone /\ Claimed
  BY DEF TypeInv, Orderly
<1>y. PICK y \in Sockets : y = responder[x].peer
  BY <1>0 DEF Answer, ResponderOK
<1>1. PICK m, k : y = responder[x].peer /\ m = Head(queue[x][y]) /\ k = sessions + 1
  BY <1>y
<1>2. PICK a : a = Msg("msg2", x, y, m.d, k)
  OBVIOUS
<1>3. /\ a.stage = "msg2" /\ a.from = x /\ a.to = y /\ a.d = m.d /\ a.r = k
  BY <1>2 DEF Msg
<1>4. /\ responder[x].at = "msg1" /\ queue[x][y] # <<>> /\ queue' = Popped(x, y)
      /\ m.stage = "msg1" /\ wire' = wire \cup {a}
      /\ responder' = [responder EXCEPT ![x] = Session(x, m)]
      /\ UNCHANGED <<taken, dials, open>>
  BY <1>1, <1>2 DEF Answer, Reads
<1>5. x \in Sockets /\ a \in Datagram
  <2>1. a \in wire'
    BY <1>4
  <2>2. QED
    BY <1>0, <2>1, Calls DEF TypeOK
<1>6. PICK W : W = {a}
  OBVIOUS
<1>7. Between(a, x, y)
  BY <1>3 DEF Between
<1>8. /\ Lone'
      /\ \A n : n \in Flying' <=> n \in W \/ (n \in Flying /\ n # m)
      /\ \A n \in Flying : n # m => ~ Between(n, x, y)
      /\ m \in Flying /\ m.to = x /\ m.from = y
  <2>1. Exchanged(x, y, m, W)
    BY <1>0, <1>1, <1>4, <1>5, <1>6, <1>7, Answered
  <2>2. QED
    BY <2>1 DEF Exchanged
<1>9. Lives(m.d, y, x) /\ dials[m.d].state = "waiting"
  BY <1>4, <1>8 DEF Orderly, Backed
<1>10. /\ responder'[x].at = "msg3" /\ responder'[x].peer = y
       /\ responder'[x].d = m.d /\ responder'[x].r = k
       /\ \A z \in Servers : z # x => responder'[z] = responder[z]
  <2>1. responder[x] \in Responder
    BY <1>0 DEF TypeOK
  <2>2. QED
    BY <1>0, <1>1, <1>4, <2>1 DEF Session, Responder, TypeOK
<1>11. \A d, u, v : Lives(d, u, v)' <=> Lives(d, u, v)
  BY <1>4 DEF Lives
<1>12. Claimed'
  BY <1>0, <1>4, <1>11 DEF Claimed
<1>13. \A n \in Flying' : Backed(n)'
  <2>1. SUFFICES ASSUME NEW n \in Flying' PROVE Backed(n)'
    OBVIOUS
  <2>2. CASE n = a
    <3>1. Awaits(x, y, m.d, k)'
      BY <1>10 DEF Awaits
    <3>2. QED
      BY <1>3, <1>4, <1>9, <1>11, <2>2, <3>1 DEF Backed
  <2>3. CASE n \in Flying
    <3>1. Backed(n)
      BY <2>3 DEF Orderly
    <3>2. \A z \in Servers : \A v, d, r : Awaits(z, v, d, r) => Awaits(z, v, d, r)'
      BY <1>4, <1>10 DEF Awaits
    <3>3. Lives(n.d, n.to, n.from) => n.from \in Servers
      BY <1>0, Calls DEF Lives
    <3>4. Lives(n.d, n.from, n.to) => n.to \in Servers
      BY <1>0, Calls DEF Lives
    <3>5. QED
      BY <1>4, <1>11, <3>1, <3>2, <3>3, <3>4 DEF Backed
  <2>4. QED
    BY <1>6, <1>8, <2>1, <2>2, <2>3
<1>14. \A z \in Servers : Attended(z)'
  <2>1. Attended(x)'
    BY <1>2, <1>4, <1>6, <1>8, <1>9, <1>10, <1>11 DEF Attended
  <2>2. ASSUME NEW z \in Servers, z # x PROVE Attended(z)'
    <3>1. Attended(z) /\ responder'[z] = responder[z]
      BY <1>10, <2>2 DEF Orderly
    <3>2. \A v, d, r : Msg("msg2", z, v, d, r) # m /\ Msg("msg3", v, z, d, r) # m
      BY <1>4 DEF Msg
    <3>3. QED
      BY <1>4, <1>8, <1>11, <3>1, <3>2 DEF Attended
  <2>3. QED
    BY <2>1, <2>2
<1>15. \A ch \in open' : Held(ch)'
  <2>1. SUFFICES ASSUME NEW ch \in open PROVE Held(ch)'
    BY <1>4
  <2>2. Held(ch)
    BY DEF Orderly
  <2>3. ch.owner \in Servers => \A n \in Flying' : ~ Between(n, ch.owner, ch.peer)
    <3>1. SUFFICES ASSUME ch.owner \in Servers, NEW n \in Flying', Between(n, ch.owner, ch.peer)
                   PROVE  FALSE
      OBVIOUS
    <3>2. CASE n = a
      <4>1. Between(m, ch.owner, ch.peer)
        BY <1>3, <1>8, <3>1, <3>2 DEF Between
      <4>2. QED
        BY <1>8, <2>2, <3>1, <4>1 DEF Held
    <3>3. CASE n \in Flying
      BY <2>2, <3>1, <3>3 DEF Held
    <3>4. QED
      BY <1>6, <1>8, <3>1, <3>2, <3>3
  <2>4. QED
    BY <1>4, <1>11, <2>2, <2>3 DEF Held
<1>16. QED
  BY <1>8, <1>12, <1>13, <1>14, <1>15 DEF Orderly

\* The third message is read.
LEMMA EstablishOrderly ==
    ASSUME TypeInv, TypeOK', Placed, Placed', Orderly, NEW x \in Servers, Establish(x)
    PROVE  Orderly'
<1>0. TypeOK /\ ResponderOK /\ Lone /\ Claimed
  BY DEF TypeInv, Orderly
<1>y. PICK y \in Sockets : y = responder[x].peer
  BY <1>0 DEF Establish, ResponderOK
<1>1. PICK m, ch :
          /\ y = responder[x].peer /\ m = Head(queue[x][y])
          /\ ch = [owner |-> x, peer |-> y, d |-> responder[x].d, r |-> responder[x].r]
  BY <1>y
<1>2. ch.owner = x /\ ch.peer = y /\ ch.d = responder[x].d
  BY <1>1
<1>3. /\ responder[x].at = "msg3" /\ queue[x][y] # <<>> /\ queue' = Popped(x, y)
      /\ m.stage = "msg3" /\ open' = open \cup {ch}
      /\ responder' = [responder EXCEPT ![x] = Accepting]
      /\ UNCHANGED <<taken, dials, wire>>
  BY <1>1 DEF Establish, Reads
<1>4. x \in Sockets /\ queue[x][y] \in Seq(Datagram)
  BY <1>0, Calls, QueueType
<1>5. m \in Datagram /\ m.to = x /\ m.from = y /\ m \in Flying
  BY <1>0, <1>1, <1>3, <1>4, HeadFlies
<1>6. PICK W : W = {}
  OBVIOUS
<1>7. Between(m, x, y) /\ wire' = wire \cup W
  BY <1>3, <1>5, <1>6 DEF Between
<1>8. /\ Lone'
      /\ \A n : n \in Flying' <=> n \in W \/ (n \in Flying /\ n # m)
      /\ \A n \in Flying : n # m => ~ Between(n, x, y)
  <2>1. Exchanged(x, y, m, W)
    BY <1>0, <1>1, <1>3, <1>4, <1>5, <1>6, <1>7, Answered
  <2>2. QED
    BY <2>1 DEF Exchanged
<1>9. \A n : n \in Flying' <=> n \in Flying /\ n # m
  BY <1>6, <1>8
<1>10. Lives(m.d, y, x) /\ responder[x].d = m.d
  BY <1>3, <1>5 DEF Orderly, Backed, Awaits
<1>11. \A d, u, v : Lives(d, u, v)' <=> Lives(d, u, v)
  BY <1>3 DEF Lives
<1>12. Claimed'
  BY <1>0, <1>3, <1>11 DEF Claimed
<1>13. responder'[x].at = "accept" /\ \A z \in Servers : z # x => responder'[z] = responder[z]
  BY <1>0, <1>3 DEF Accepting, TypeOK
<1>14. \A n \in Flying' : Backed(n)'
  <2>1. SUFFICES ASSUME NEW n \in Flying, n # m PROVE Backed(n)'
    BY <1>9
  <2>2. Backed(n) /\ ~ Between(n, x, y)
    BY <1>8, <2>1 DEF Orderly
  <2>3. \A z \in Servers : \A v, d, r :
            Awaits(z, v, d, r) => (z = x /\ v = y) \/ Awaits(z, v, d, r)'
    BY <1>1, <1>13 DEF Awaits
  <2>4. Lives(n.d, n.to, n.from) => n.from \in Servers
    BY <1>0, Calls DEF Lives
  <2>5. Lives(n.d, n.from, n.to) => n.to \in Servers
    BY <1>0, Calls DEF Lives
  <2>6. ~ (n.from = x /\ n.to = y) /\ ~ (n.to = x /\ n.from = y)
    BY <2>2 DEF Between
  <2>7. QED
    BY <1>3, <1>11, <2>2, <2>3, <2>4, <2>5, <2>6 DEF Backed
<1>15. \A z \in Servers : Attended(z)'
  <2>1. Attended(x)'
    BY <1>13 DEF Attended
  <2>2. ASSUME NEW z \in Servers, z # x PROVE Attended(z)'
    <3>1. Attended(z) /\ responder'[z] = responder[z]
      BY <1>13, <2>2 DEF Orderly
    <3>2. \A v, d, r : Msg("msg2", z, v, d, r) # m /\ Msg("msg3", v, z, d, r) # m
      BY <1>3, <1>5, <2>2 DEF Msg
    <3>3. QED
      BY <1>3, <1>9, <1>11, <3>1, <3>2 DEF Attended
  <2>3. QED
    BY <2>1, <2>2
<1>16. \A c \in open' : Held(c)'
  <2>1. Held(ch)'
    BY <1>0, <1>2, <1>8, <1>9, <1>10, <1>11, Calls DEF Held
  <2>2. ASSUME NEW c \in open PROVE Held(c)'
    BY <1>3, <1>9, <1>11 DEF Orderly, Held
  <2>3. QED
    BY <1>3, <2>1, <2>2
<1>17. QED
  BY <1>8, <1>12, <1>14, <1>15, <1>16 DEF Orderly

\* The second message is answered with the third.
LEMMA ConnectOrderly ==
    ASSUME TypeInv, TypeOK', Placed, Placed', Orderly, NEW d \in DOMAIN dials, Connect(d)
    PROVE  Orderly'
<1>0. TypeOK /\ Lone /\ Claimed
  BY DEF TypeInv, Orderly
<1>x. dials[d].from \in Clients /\ dials[d].to \in Servers
  BY <1>0, Calls
<1>y. PICK x \in Clients, y \in Servers : x = dials[d].from /\ y = dials[d].to
  BY <1>x
<1>1. PICK m, b, ch :
          /\ m = Head(queue[x][y]) /\ b = Msg("msg3", x, y, d, m.r)
          /\ ch = [owner |-> x, peer |-> y, d |-> d, r |-> m.r]
  OBVIOUS
<1>2. /\ b.stage = "msg3" /\ b.from = x /\ b.to = y /\ b.d = d /\ b.r = m.r
      /\ ch.owner = x /\ ch.peer = y /\ ch.d = d
  BY <1>1 DEF Msg
<1>3. /\ dials[d].state = "waiting" /\ queue[x][y] # <<>> /\ queue' = Popped(x, y)
      /\ m.stage = "msg2" /\ m.d = d /\ wire' = wire \cup {b} /\ open' = open \cup {ch}
      /\ dials' = [dials EXCEPT ![d].state = "connected", ![d].r = m.r]
      /\ UNCHANGED <<taken, responder>>
  BY <1>y, <1>1 DEF Connect
<1>4. x \in Sockets /\ y \in Sockets /\ b \in Datagram
  <2>1. b \in wire'
    BY <1>3
  <2>2. QED
    BY <1>0, <2>1, Calls DEF TypeOK
<1>5. PICK W : W = {b}
  OBVIOUS
<1>6. Between(b, x, y)
  BY <1>2 DEF Between
<1>7. /\ Lone'
      /\ \A n : n \in Flying' <=> n \in W \/ (n \in Flying /\ n # m)
      /\ \A n \in Flying : n # m => ~ Between(n, x, y)
      /\ m \in Flying /\ m.to = x /\ m.from = y
  <2>1. Exchanged(x, y, m, W)
    BY <1>0, <1>1, <1>3, <1>4, <1>5, <1>6, Answered
  <2>2. QED
    BY <2>1 DEF Exchanged
<1>8. Lives(d, x, y) /\ Awaits(y, x, d, m.r)
  BY <1>3, <1>7 DEF Orderly, Backed
<1>9. /\ DOMAIN dials' = DOMAIN dials /\ dials'[d].state = "connected"
      /\ dials'[d].from = x /\ dials'[d].to = y
      /\ \A e \in DOMAIN dials : e # d => dials'[e] = dials[e]
  <2>0. dials \in Seq(Call)
    BY <1>0 DEF TypeOK
  <2>1. dials[d] \in Call
    BY <2>0
  <2>2. QED
    BY <1>y, <1>3, <2>1 DEF Call
<1>10. \A e, u, v : Lives(e, u, v)' <=> Lives(e, u, v)
  BY <1>8, <1>9 DEF Lives
<1>11. Claimed'
  BY <1>0, <1>3, <1>9, <1>10 DEF Claimed
<1>12. \A u, v, e, r : Awaits(u, v, e, r)' <=> Awaits(u, v, e, r)
  BY <1>3 DEF Awaits
<1>13. \A n \in Flying' : Backed(n)'
  <2>1. SUFFICES ASSUME NEW n \in Flying' PROVE Backed(n)'
    OBVIOUS
  <2>2. CASE n = b
    BY <1>2, <1>8, <1>9, <1>10, <1>12, <2>2 DEF Backed
  <2>3. CASE n \in Flying /\ n # m
    <3>1. Backed(n) /\ ~ Between(n, x, y)
      BY <1>7, <2>3 DEF Orderly
    <3>2. n.d \in DOMAIN dials /\ n.d # d
      BY <1>8, <3>1 DEF Backed, Between, Lives
    <3>3. dials'[n.d] = dials[n.d]
      BY <1>9, <3>2
    <3>4. QED
      BY <1>10, <1>12, <3>1, <3>3 DEF Backed
  <2>4. QED
    BY <1>5, <1>7, <2>1, <2>2, <2>3
<1>14. \A z \in Servers : Attended(z)'
  <2>1. Attended(y)'
    BY <1>1, <1>3, <1>5, <1>7, <1>8, <1>10 DEF Attended, Awaits
  <2>2. ASSUME NEW z \in Servers, z # y PROVE Attended(z)'
    <3>1. Attended(z) /\ responder'[z] = responder[z]
      BY <1>3 DEF Orderly
    <3>2. \A v, e, r : Msg("msg2", z, v, e, r) # m /\ Msg("msg3", v, z, e, r) # m
      BY <1>3, <1>7, <2>2 DEF Msg
    <3>3. \A e, v : Lives(e, v, z) => e # d /\ dials'[e] = dials[e]
      BY <1>8, <1>9, <2>2 DEF Lives
    <3>4. QED
      BY <1>7, <1>10, <3>1, <3>2, <3>3 DEF Attended
  <2>3. QED
    BY <2>1, <2>2
<1>15. \A c \in open' : Held(c)'
  <2>1. Held(ch)'
    BY <1>0, <1>2, <1>8, <1>9, <1>10, Calls DEF Held
  <2>2. ASSUME NEW c \in open PROVE Held(c)'
    <3>1. Held(c)
      BY DEF Orderly
    <3>2. c.owner \in Clients => /\ Lives(c.d, c.owner, c.peer)'
                                 /\ dials'[c.d].state = "connected"
      BY <1>9, <1>10, <3>1 DEF Held, Lives
    <3>3. c.owner \in Servers => \A n \in Flying' : ~ Between(n, c.owner, c.peer)
      <4>1. SUFFICES ASSUME c.owner \in Servers, NEW n \in Flying', Between(n, c.owner, c.peer)
                     PROVE  FALSE
        OBVIOUS
      <4>2. CASE n = b
        <5>1. Between(m, c.owner, c.peer)
          BY <1>2, <1>7, <4>1, <4>2 DEF Between
        <5>2. QED
          BY <1>7, <3>1, <4>1, <5>1 DEF Held
      <4>3. CASE n \in Flying
        BY <3>1, <4>1, <4>3 DEF Held
      <4>4. QED
        BY <1>5, <1>7, <4>1, <4>2, <4>3
    <3>4. QED
      BY <1>10, <3>1, <3>2, <3>3 DEF Held
  <2>3. QED
    BY <1>3, <2>1, <2>2
<1>16. QED
  BY <1>7, <1>11, <1>13, <1>14, <1>15 DEF Orderly

\* A dial is called: it fails, or it is the only one of its two ends.
LEMMA DialOrderly ==
    ASSUME TypeInv, TypeOK', Placed, Placed', Orderly, NEW x \in Clients, NEW y \in Servers,
           Dial(x, y)
    PROVE  Orderly'
<1>0. TypeOK /\ Lone /\ Claimed
  BY DEF TypeInv, Orderly
<1>1. PICK e : e = Len(dials) + 1
  OBVIOUS
<1>2. /\ e \notin DOMAIN dials /\ DOMAIN dials' = DOMAIN dials \cup {e}
      /\ \A d \in DOMAIN dials : dials'[d] = dials[d]
      /\ dials'[e].from = x /\ dials'[e].to = y
      /\ dials'[e].state = IF y \notin taken[x] THEN "waiting" ELSE "failed"
  <2>1. PICK c : /\ c.from = x /\ c.to = y
                 /\ c.state = IF y \notin taken[x] THEN "waiting" ELSE "failed"
                 /\ dials' = Append(dials, c)
    BY DEF Dial
  <2>2. PICK s \in Seq(Call) : s = dials
    BY <1>0 DEF TypeOK
  <2>3. PICK k \in Nat : k = Len(s)
    OBVIOUS
  <2>4. DOMAIN s = 1..k /\ e = k + 1
    BY <1>1, <2>2, <2>3
  <2>5. /\ DOMAIN Append(s, c) = 1..(k + 1) /\ Append(s, c)[e] = c
        /\ \A d \in 1..k : Append(s, c)[d] = s[d]
    BY <2>3, <2>4
  <2>6. e \notin 1..k /\ 1..(k + 1) = 1..k \cup {e}
    BY <2>4
  <2>7. QED
    BY <2>1, <2>2, <2>4, <2>5, <2>6
<1>3. UNCHANGED <<queue, responder, open>>
  BY DEF Dial
<1>4. /\ \A u \in Sockets : taken[u] \subseteq taken'[u]
      /\ y \in taken'[x] /\ x \in Sockets /\ y \in Sockets
  BY <1>0, Calls DEF Dial, TypeOK
<1>5. \A u, v, d, r : Awaits(u, v, d, r)' <=> Awaits(u, v, d, r)
  BY <1>3 DEF Awaits
<1>6. \A n : Backed(n) => Backed(n)'
  BY <1>2, <1>5 DEF Backed, Lives
<1>7. \A d, u, v : Lives(d, u, v) => Lives(d, u, v)' /\ dials'[d] = dials[d]
  BY <1>2 DEF Lives
<1>8. \A d \in DOMAIN dials : dials[d].from \in Sockets
  BY <1>0, Calls
<1>9. CASE y \in taken[x]
  <2>1. wire' = wire
    BY <1>9 DEF Dial
  <2>2. Flying' = Flying /\ Lone'
    <3>1. Flying' = Flying
      <4>1. queue' = queue
        BY <1>3
      <4>2. QED
        BY <2>1, <4>1 DEF Flying
    <3>2. QED
      BY <1>0, <1>3, <2>1, <3>1 DEF Lone
  <2>3. \A d, u, v : Lives(d, u, v)' => Lives(d, u, v)
    BY <1>2, <1>9 DEF Lives
  <2>4. Claimed'
    BY <1>0, <1>2, <1>4, <1>8, <2>3 DEF Claimed, Lives
  <2>5. \A z \in Servers : Attended(z)'
    BY <1>3, <1>7, <2>2 DEF Orderly, Attended
  <2>6. \A c \in open' : Held(c)'
    BY <1>3, <1>7, <2>2 DEF Orderly, Held
  <2>7. QED
    BY <1>6, <2>2, <2>4, <2>5, <2>6 DEF Orderly
<1>10. CASE y \notin taken[x]
  <2>1. PICK a : a = Msg("msg1", x, y, e, 0)
    OBVIOUS
  <2>2. a.stage = "msg1" /\ a.from = x /\ a.to = y /\ a.d = e
    BY <2>1 DEF Msg
  <2>3. wire' = wire \cup {a}
    BY <1>1, <1>10, <2>1 DEF Dial
  <2>4. \A n : n \in Flying' <=> n \in Flying \/ n = a
    BY <1>3, <2>3 DEF Flying
  <2>5. \A d : ~ Lives(d, x, y)
    BY <1>0, <1>10 DEF Claimed, Lives
  <2>6. \A n \in Flying : ~ Between(n, x, y)
    <3>1. SUFFICES ASSUME NEW n \in Flying, Between(n, x, y) PROVE FALSE
      OBVIOUS
    <3>2. Backed(n)
      BY <3>1 DEF Orderly
    <3>3. \A d, u, v : Lives(d, u, v) => u \in Clients /\ v \in Servers
      BY <1>0, Calls DEF Lives
    <3>4. x \notin Servers /\ y \notin Clients
      BY <1>0, Calls
    <3>5. QED
      BY <2>5, <3>1, <3>2, <3>3, <3>4 DEF Between, Backed
  <2>7. Lone'
    <3>1. \A m, n \in Flying' : Between(m, n.from, n.to) => m = n
      <4>1. SUFFICES ASSUME NEW m \in Flying', NEW n \in Flying', Between(m, n.from, n.to)
                     PROVE  m = n
        OBVIOUS
      <4>2. CASE m \in Flying /\ n \in Flying
        BY <1>0, <4>1, <4>2 DEF Lone
      <4>3. CASE m = a /\ n \in Flying
        BY <2>2, <2>6, <4>1, <4>3 DEF Between
      <4>4. CASE n = a /\ m \in Flying
        BY <2>2, <2>6, <4>1, <4>4 DEF Between
      <4>5. QED
        BY <2>4, <4>1, <4>2, <4>3, <4>4
    <3>2. queue[y][x] = <<>>
      <4>1. SUFFICES ASSUME queue[y][x] # <<>> PROVE FALSE
        OBVIOUS
      <4>2. PICK h : h = Head(queue[y][x])
        OBVIOUS
      <4>3. h \in Flying /\ h.to = y /\ h.from = x
        BY <1>0, <1>4, <4>1, <4>2, HeadFlies
      <4>4. QED
        BY <2>6, <4>3 DEF Between
    <3>3. QED
      BY <1>0, <1>3, <2>2, <2>3, <3>1, <3>2 DEF Lone
  <2>8. \A d, u, v : Lives(d, u, v)' => Lives(d, u, v) \/ (d = e /\ u = x /\ v = y)
    BY <1>2 DEF Lives
  <2>9. Claimed'
    <3>1. SUFFICES ASSUME NEW u \in Clients, NEW v \in Servers, NEW d \in DOMAIN dials',
                          Lives(d, u, v)'
                   PROVE  v \in taken'[u] /\ \A k \in DOMAIN dials' : Lives(k, u, v)' => k = d
      BY DEF Claimed
    <3>2. CASE u = x /\ v = y
      BY <1>4, <2>5, <2>8, <3>1, <3>2
    <3>3. CASE ~ (u = x /\ v = y)
      <4>1. Lives(d, u, v) /\ \A k : Lives(k, u, v)' => Lives(k, u, v)
        BY <2>8, <3>1, <3>3
      <4>2. v \in taken[u] /\ \A k : Lives(k, u, v) => k = d
        BY <1>0, <4>1 DEF Claimed, Lives
      <4>3. u \in Sockets
        BY <1>0, Calls
      <4>4. QED
        BY <1>4, <4>1, <4>2, <4>3
    <3>4. QED
      BY <3>2, <3>3
  <2>10. \A n \in Flying' : Backed(n)'
    <3>1. Backed(a)'
      BY <1>2, <1>10, <2>2 DEF Backed, Lives
    <3>2. QED
      BY <1>6, <2>4, <3>1 DEF Orderly
  <2>11. \A z \in Servers : Attended(z)'
    BY <1>3, <1>7, <2>4 DEF Orderly, Attended
  <2>12. \A c \in open' : Held(c)'
    <3>1. SUFFICES ASSUME NEW c \in open PROVE Held(c)'
      BY <1>3
    <3>2. Held(c)
      BY DEF Orderly
    <3>3. c.owner \in Servers => ~ Between(a, c.owner, c.peer)
      BY <1>0, <2>2, <2>5, <3>2, Calls DEF Held, Between
    <3>4. QED
      BY <1>7, <2>4, <3>2, <3>3 DEF Held
  <2>13. QED
    BY <2>7, <2>9, <2>10, <2>11, <2>12 DEF Orderly
<1>11. QED
  BY <1>9, <1>10

\* What waits for a responder is the message that it reads.
LEMMA NeverRejects ==
    ASSUME TypeInv, Placed, Orderly, NEW x \in Servers, Reject(x)
    PROVE  FALSE
<1>0. TypeOK /\ ResponderOK /\ Lone /\ Claimed /\ x \in Sockets
  BY Calls DEF TypeInv, Orderly
<1>1. PICK y \in Sockets : y = responder[x].peer
  BY <1>0 DEF Reject, ResponderOK
<1>2. PICK m : m = Head(queue[x][y])
  OBVIOUS
<1>3. responder[x].at # "accept" /\ queue[x][y] # <<>> /\ ~ Reads(x, m)
  BY <1>1, <1>2 DEF Reject
<1>4. m \in Flying /\ m.to = x /\ m.from = y
  BY <1>0, <1>2, <1>3, HeadFlies
<1>5. Backed(m) /\ Attended(x)
  BY <1>4 DEF Orderly
<1>6. responder[x].at \in {"msg1", "msg3"}
  BY <1>0, <1>3 DEF TypeOK, Responder
<1>7. m.stage # "msg2"
  BY <1>0, <1>4, <1>5, Calls DEF Backed, Lives
<1>8. m.stage # "msg3"
  BY <1>3, <1>4, <1>5 DEF Backed, Awaits, Reads
<1>9. CASE m.stage = "msg1"
  <2>1. responder[x].at = "msg3"
    BY <1>3, <1>6, <1>9 DEF Reads
  <2>2. PICK n \in Flying : Between(m, n.from, n.to) /\ n.stage # "msg1"
    <3>1. \A d, r : Between(m, Msg("msg2", x, y, d, r).from, Msg("msg2", x, y, d, r).to)
      BY <1>4 DEF Between, Msg
    <3>2. \A d, r : Between(m, Msg("msg3", y, x, d, r).from, Msg("msg3", y, x, d, r).to)
      BY <1>4 DEF Between, Msg
    <3>3. \A d, r : /\ Msg("msg2", x, y, d, r).stage # "msg1"
                    /\ Msg("msg3", y, x, d, r).stage # "msg1"
      BY DEF Msg
    <3>4. QED
      BY <1>1, <1>5, <2>1, <3>1, <3>2, <3>3 DEF Attended
  <2>3. m = n
    BY <1>0, <1>4, <2>2 DEF Lone
  <2>4. QED
    BY <1>9, <2>2, <2>3
<1>10. QED
  BY <1>5, <1>7, <1>8, <1>9 DEF Backed

\* What waits for a dial is the second message of its own session.
LEMMA NeverGivesUp ==
    ASSUME TypeInv, Placed, Orderly, NEW d \in DOMAIN dials, GiveUp(d)
    PROVE  FALSE
<1>0. TypeOK /\ Claimed
  BY DEF TypeInv, Orderly
<1>1. dials[d].from \in Clients /\ dials[d].to \in Servers
  BY <1>0, Calls
<1>2. PICK x \in Clients, y \in Servers : x = dials[d].from /\ y = dials[d].to
  BY <1>1
<1>3. PICK m : m = Head(queue[x][y])
  OBVIOUS
<1>4. dials[d].state = "waiting" /\ queue[x][y] # <<>> /\ ~ (m.stage = "msg2" /\ m.d = d)
  BY <1>2, <1>3 DEF GiveUp
<1>5. x \in Sockets /\ y \in Sockets /\ y \notin Clients
  BY <1>0, Calls
<1>6. m \in Flying /\ m.to = x /\ m.from = y
  BY <1>0, <1>3, <1>4, <1>5, HeadFlies
<1>7. Backed(m)
  BY <1>6 DEF Orderly
<1>8. m.stage = "msg2" /\ Lives(m.d, x, y)
  BY <1>0, <1>5, <1>6, <1>7, Calls DEF Backed, Lives
<1>9. Lives(d, x, y)
  BY <1>2, <1>4 DEF Lives
<1>10. m.d = d
  BY <1>0, <1>8, <1>9 DEF Claimed, Lives
<1>11. QED
  BY <1>4, <1>8, <1>10

\* Nothing waits on a channel that the application holds.
LEMMA NothingToRead ==
    ASSUME TypeInv, Placed, Orderly, NEW ch \in open, RecvData(ch)
    PROVE  FALSE
<1>0. TypeOK /\ Claimed
  BY DEF TypeInv, Orderly
<1>1. ch.owner \in Sockets /\ ch.peer \in Sockets
  BY <1>0 DEF TypeOK, EfcpChannel
<1>2. PICK x \in Sockets, y \in Sockets : x = ch.owner /\ y = ch.peer
  BY <1>1
<1>3. PICK m : m = Head(queue[x][y])
  OBVIOUS
<1>4. queue[x][y] # <<>>
  BY <1>2 DEF RecvData
<1>5. m \in Flying /\ m.to = x /\ m.from = y
  BY <1>0, <1>3, <1>4, HeadFlies
<1>6. Backed(m) /\ Held(ch)
  BY <1>5 DEF Orderly
<1>7. CASE x \in Servers
  BY <1>2, <1>5, <1>6, <1>7 DEF Held, Between
<1>8. CASE x \in Clients
  <2>1. Lives(ch.d, x, y) /\ dials[ch.d].state = "connected"
    BY <1>2, <1>6, <1>8 DEF Held
  <2>2. y \in Servers /\ y \notin Clients
    BY <1>0, <2>1, Calls DEF Lives
  <2>3. Lives(m.d, x, y) /\ dials[m.d].state = "waiting"
    BY <1>0, <1>5, <1>6, <2>2, Calls DEF Backed, Lives
  <2>4. m.d = ch.d
    BY <1>0, <1>8, <2>1, <2>2, <2>3 DEF Claimed, Lives
  <2>5. QED
    BY <2>1, <2>3, <2>4
<1>9. QED
  BY <1>7, <1>8 DEF Sockets

\* In a calm run a pair of sockets has one dial, whose messages find their readers.
LEMMA AttendInvariant == Spec => []AttendInv
<1>1. Init => AttendInv
  <2>1. Init => Flying = {}
    BY DEF Init, Flying
  <2>2. Init => \A x, y \in Sockets : Len(queue[x][y]) <= 1
    <3>1. Len(<<>>) <= 1
      OBVIOUS
    <3>2. QED
      BY <3>1 DEF Init
  <2>3. QED
    BY <2>1, <2>2 DEF Init, AttendInv, Orderly, Lone, Claimed, Attended, Accepting
<1>2. ASSUME TypeInv, TypeInv', SessionInv, SessionInv', AttendInv, [Next]_vars PROVE AttendInv'
  <2>0. TypeOK /\ TypeOK' /\ Placed /\ Placed'
    BY <1>2 DEF TypeInv, SessionInv
  <2>1. SUFFICES ASSUME Calm' PROVE Orderly'
    BY DEF AttendInv
  <2>2. /\ lost \in Nat /\ duplicated \in Nat /\ data \in Nat /\ drops \in Nat
        /\ lost' \in Nat /\ duplicated' \in Nat /\ data' \in Nat /\ drops' \in Nat
    BY <2>0 DEF TypeOK
  <2>3. lost' = 0 /\ duplicated' = 0 /\ data' = 0 /\ drops' = 0
    <3>1. \A i, j, k, l \in Nat : i + j + k + l = 0 => i = 0 /\ j = 0 /\ k = 0 /\ l = 0
      OBVIOUS
    <3>2. lost' + duplicated' + data' + drops' = 0
      BY <2>1 DEF Calm
    <3>3. QED
      BY <2>2, <3>1, <3>2
  <2>4. lost = 0 /\ duplicated = 0 /\ data = 0 /\ drops = 0 => Orderly
    BY <1>2 DEF AttendInv, Calm
  <2>5. Servers \subseteq Sockets /\ Clients \subseteq Sockets
    BY DEF Sockets
  <2>6. \A m : Delivered(m) => /\ wire' = wire \ {m} /\ m \in wire
                               /\ lost = 0 /\ duplicated = 0 /\ drops = 0
    BY <2>2, <2>3 DEF Delivered
  <2>7. ASSUME NEW x \in Servers, ServerStep(x) PROVE Orderly'
    <3>1. CASE AcceptFast(x)
      <4>1. Orderly
        BY <2>3, <2>4, <3>1 DEF AcceptFast, faults
      <4>2. UNCHANGED <<queue, wire, dials, open, taken>>
        BY <3>1 DEF AcceptFast
      <4>3. Flying' = Flying
        BY <4>2, <3>1 DEF Flying, AcceptFast
      <4>4. Lone'
        BY <4>1, <4>2, <4>3 DEF Orderly, Lone
      <4>5. \A z \in Servers : \/ responder'[z] = responder[z]
                               \/ responder[z].at # "msg3" /\ responder'[z].at # "msg3"
        BY <2>0, <3>1 DEF AcceptFast, Begin, TypeOK
      <4>6. QED
        BY <2>0, <4>1, <4>2, <4>3, <4>4, <4>5, StillOrderly
    <3>2. CASE Answer(x)
      <4>1. Orderly
        BY <2>3, <2>4, <3>2 DEF Answer, faults
      <4>2. QED
        BY <1>2, <2>0, <3>2, <4>1, AnswerOrderly
    <3>3. CASE Establish(x)
      <4>1. Orderly
        BY <2>3, <2>4, <3>3 DEF Establish, faults
      <4>2. QED
        BY <1>2, <2>0, <3>3, <4>1, EstablishOrderly
    <3>4. CASE Reject(x)
      <4>1. Orderly
        BY <2>3, <2>4, <3>4 DEF Reject, faults
      <4>2. QED
        BY <1>2, <2>0, <3>4, <4>1, NeverRejects
    <3>5. ASSUME NEW m \in wire, AcceptSlow(x, m) PROVE Orderly'
      <4>1. Delivered(m) /\ m.to = x /\ data' = data
        BY <3>5 DEF AcceptSlow
      <4>2. wire' = wire \ {m} /\ Orderly
        BY <2>3, <2>4, <2>6, <4>1
      <4>3. queue' = [queue EXCEPT ![x][m.from] = Append(@, m)]
        BY <3>5 DEF AcceptSlow
      <4>4. Lone' /\ \A n : n \in Flying' <=> n \in Flying
        BY <2>0, <2>5, <4>1, <4>2, <4>3, DeliveredOnce DEF Orderly
      <4>5. \A z \in Servers : \/ responder'[z] = responder[z]
                               \/ responder[z].at # "msg3" /\ responder'[z].at # "msg3"
        <5>1. CASE m.from \in taken[x]
          BY <3>5, <5>1 DEF AcceptSlow
        <5>2. CASE m.from \notin taken[x]
          <6>1. responder[x].at = "accept" /\ Begin(x, m.from)
            BY <3>5, <5>2 DEF AcceptSlow
          <6>2. DOMAIN responder = Servers
            BY <2>0 DEF TypeOK
          <6>3. QED
            BY <6>1, <6>2 DEF Begin
        <5>3. QED
          BY <5>1, <5>2
      <4>6. \A z \in Clients : taken[z] \subseteq taken'[z]
        BY <2>0, <2>5, <3>5 DEF AcceptSlow, TypeOK
      <4>7. UNCHANGED <<dials, open>>
        BY <3>5 DEF AcceptSlow
      <4>8. QED
        BY <2>0, <4>2, <4>4, <4>5, <4>6, <4>7, StillOrderly
    <3>6. QED
      BY <2>7, <3>1, <3>2, <3>3, <3>4, <3>5 DEF ServerStep
  <2>8. ASSUME NEW d \in DOMAIN dials, DialStep(d) PROVE Orderly'
    <3>1. CASE Connect(d)
      <4>1. Orderly
        BY <2>3, <2>4, <3>1 DEF Connect, faults
      <4>2. QED
        BY <1>2, <2>0, <3>1, <4>1, ConnectOrderly
    <3>2. CASE GiveUp(d)
      <4>1. Orderly
        BY <2>3, <2>4, <3>2 DEF GiveUp, faults
      <4>2. QED
        BY <1>2, <2>0, <3>2, <4>1, NeverGivesUp
    <3>3. QED
      BY <2>8, <3>1, <3>2 DEF DialStep
  <2>9. ASSUME NEW x \in Sockets, NEW m \in wire, Arrive(x, m) PROVE Orderly'
    <3>1. Delivered(m) /\ m.to = x /\ data' = data
      BY <2>9 DEF Arrive
    <3>2. wire' = wire \ {m} /\ Orderly
      BY <2>3, <2>4, <2>6, <3>1
    <3>3. /\ queue' = [queue EXCEPT ![x][m.from] = Append(@, m)]
          /\ UNCHANGED <<taken, responder, dials, open>>
      BY <2>9 DEF Arrive
    <3>4. Lone' /\ \A n : n \in Flying' <=> n \in Flying
      BY <2>0, <3>1, <3>2, <3>3, DeliveredOnce DEF Orderly
    <3>5. QED
      BY <2>0, <3>2, <3>3, <3>4, StillOrderly
  <2>10. ASSUME NEW x \in Clients, NEW y \in Servers, Dial(x, y) PROVE Orderly'
    <3>1. Orderly
      BY <2>3, <2>4, <2>10 DEF Dial, faults
    <3>2. QED
      BY <1>2, <2>0, <2>10, <3>1, DialOrderly
  <2>11. ASSUME NEW ch \in open, SendData(ch) \/ RecvData(ch) \/ Drop(ch) PROVE Orderly'
    <3>1. ~ SendData(ch) /\ ~ Drop(ch)
      BY <2>2, <2>3 DEF SendData, Drop
    <3>2. CASE RecvData(ch)
      <4>1. Orderly
        BY <2>3, <2>4, <3>2 DEF RecvData, faults
      <4>2. QED
        BY <1>2, <2>0, <3>2, <4>1, NothingToRead
    <3>3. QED
      BY <2>11, <3>1, <3>2
  <2>12. ASSUME NEW m \in wire PROVE ~ Lose(m)
    BY <2>2, <2>3 DEF Lose
  <2>13. CASE UNCHANGED vars
    <3>1. UNCHANGED <<queue, wire, dials, open, taken, responder, lost, duplicated, data, drops>>
      BY <2>13 DEF vars, tables, faults
    <3>2. Orderly
      BY <2>3, <2>4, <3>1
    <3>3. queue' = queue /\ wire' = wire
      BY <3>1
    <3>4. Flying' = Flying
      BY <3>3 DEF Flying
    <3>5. Lone'
      BY <3>2, <3>3, <3>4 DEF Orderly, Lone
    <3>6. QED
      BY <2>0, <3>1, <3>2, <3>4, <3>5, StillOrderly
  <2>14. QED
    BY <1>2, <2>7, <2>8, <2>9, <2>10, <2>11, <2>12, <2>13 DEF Next, Network
<1>3. QED
  BY <1>1, <1>2, TypeInvariant, SessionInvariant, PTL DEF Spec

\* As long as the network has no faults and the applications only dial, a server that
\* has answered a dial is waited for by it, or the third message is on its way.
THEOREM HandshakesAttended == Spec => []HandshakeAttended
<1>1. TypeInv /\ SessionInv /\ AttendInv => HandshakeAttended
  <2>1. SUFFICES ASSUME TypeInv, SessionInv, Orderly, NEW x \in Servers, responder[x].at = "msg3"
                 PROVE  LET y == responder[x].peer
                            third == Msg("msg3", y, x, responder[x].d, responder[x].r) IN
                        \/ dials[responder[x].d].state = "waiting"
                        \/ third \in wire
                        \/ \E i \in DOMAIN queue[x][y] : queue[x][y][i] = third
    BY DEF HandshakeAttended, AttendInv, Calm
  <2>2. PICK y : y = responder[x].peer
    OBVIOUS
  <2>3. PICK third : third = Msg("msg3", y, x, responder[x].d, responder[x].r)
    OBVIOUS
  <2>4. dials[responder[x].d].state = "waiting" \/ third \in Flying
    BY <2>1, <2>2, <2>3 DEF Orderly, Attended
  <2>5. third.to = x /\ third.from = y
    BY <2>3 DEF Msg
  <2>6. third \in Flying => third \in wire \/ \E i \in DOMAIN queue[x][y] : queue[x][y][i] = third
    BY <2>1, <2>5, Whereabouts DEF TypeInv, SessionInv
  <2>7. QED
    BY <2>2, <2>3, <2>4, <2>6
<1>2. QED
  BY <1>1, TypeInvariant, SessionInvariant, AttendInvariant, PTL

================================================================================
