----------------------------- MODULE DtpMuxProofs -----------------------------
(***************************************************************************)
(* The DTP multiplexer implements the abstract one of DtpMux, for any      *)
(* number of threads, channels, handles and datagrams, when closing is     *)
(* serial.                                                                 *)
(***************************************************************************)
EXTENDS DtpSocketProofs

-----------------------------------------------------------------------------
(***************************************************************************)
(* Two invariants of the locals.                                           *)
(***************************************************************************)

\* A thread that polls a DtpChannel holds it: Rust's borrow keeps the handle from
\* being dropped, so it still stands for the channel the poll was given.
BorrowsOK ==
    \A t \in Threads :
        /\ borrowed[t] # NoHandle => handle[borrowed[t]] = target[t]
        /\ pc[t] \in {"lookup", "pop"} => borrowed[t] # NoHandle
        /\ pc[t] \in {"idle", "resolve", "unlink", "remove"} => borrowed[t] = NoHandle

Carries(t) == pc[t] \in {"route", "push"}

\* A datagram read from the OS is in the hands of one poll_recv only.
HandsOK ==
    \A t \in Threads : Carries(t) =>
        /\ packet[t].id <= arrived
        /\ \A u \in Threads : Carries(u) /\ packet[u].id = packet[t].id => u = t

\* No handle that is being polled is dropped or given another channel.
LEMMA BorrowsInvariant == Spec => []BorrowsOK
<1>1. Init => BorrowsOK
  BY DEF Init, BorrowsOK
<1>2. ASSUME TypeInv, BorrowsOK, [Next]_vars PROVE BorrowsOK'
  <2>0. HandlesType /\ MethodsType /\ LocalsOK
    BY <1>2 DEF TypeInv, TypeOK
  <2>n. \A t \in Threads : borrowed[t] # NoHandle =>
            borrowed[t] \in Handles /\ handle[borrowed[t]] # NoChannel
    BY <1>2, <2>0, SentinelAssumption DEF BorrowsOK, LocalsOK, MethodsType
  <2>1. ASSUME NEW ch \in Channel, NewHandle(ch), UNCHANGED <<borrowed, target, pc>>
        PROVE  BorrowsOK'
    BY <1>2, <2>0, <2>1, <2>n DEF BorrowsOK, NewHandle, HandlesType
  <2>2. ASSUME NEW t \in Threads, NEW ch \in Channel, Outgoing(t, ch) PROVE BorrowsOK'
    BY <2>1, <2>2 DEF Outgoing, locals
  <2>3. ASSUME NEW t \in Threads, PollIncoming(t) PROVE BorrowsOK'
    <3>1. CASE incoming # <<>>
      BY <2>0, <2>1, <2>3, <3>1 DEF PollIncoming, HandlesType, locals
    <3>2. CASE incoming = <<>>
      BY <1>2, <2>0, <2>3, <3>2 DEF PollIncoming, BorrowsOK, MethodsType, Goto, locals
    <3>3. QED
      BY <3>1, <3>2
  <2>4. ASSUME NEW t \in Threads, NEW h \in Handles, PollChannel(t, h) PROVE BorrowsOK'
    BY <1>2, <2>0, <2>4, SocketAssumption DEF PollChannel, BorrowsOK, MethodsType, Goto
  <2>5. ASSUME NEW t \in Threads, NEW h \in Handles, Drop(t, h) PROVE BorrowsOK'
    BY <1>2, <2>0, <2>5, <2>n DEF Drop, BorrowsOK, MethodsType, HandlesType, Goto
  <2>6. ASSUME NEW t \in Threads, Claim(t) PROVE BorrowsOK'
    <3>1. borrowed[t] = NoHandle /\ target[t] \in Channel
      BY <2>0, <2>6 DEF Claim, LocalsOK
    <3>2. CASE target[t] \notin channels
      <4>1. NewHandle(target[t]) /\ Return(t)
        BY <2>6, <3>2 DEF Claim
      <4>2. QED
        BY <1>2, <2>0, <2>n, <3>1, <4>1
           DEF Return, NewHandle, BorrowsOK, MethodsType, HandlesType, Goto
    <3>3. CASE target[t] \in channels
      BY <1>2, <2>0, <2>6, <3>1, <3>3 DEF Claim, BorrowsOK, MethodsType, Goto
    <3>4. QED
      BY <3>2, <3>3
  <2>7. ASSUME NEW t \in Threads, Take(t) PROVE BorrowsOK'
    BY <1>2, <2>0, <2>7 DEF Take, LocalsOK, BorrowsOK, MethodsType, Goto
  <2>8. ASSUME NEW t \in Threads,
               Lookup(t) \/ Recv(t) \/ Route(t) \/ Push(t) \/ Resolve(t) \/ Unlink(t)
        PROVE  BorrowsOK'
    BY <1>2, <2>0, <2>8 DEF Lookup, Recv, Route, Push, Resolve, Unlink, BorrowsOK, MethodsType,
                            Goto, locals
  <2>9. ASSUME NEW t \in Threads, Check(t) \/ Announce(t) PROVE BorrowsOK'
    BY <1>2, <2>0, <2>9 DEF Check, Announce, Received, AfterRecv, BorrowsOK, MethodsType, Goto
  <2>10. ASSUME NEW t \in Threads, Return(t), UNCHANGED handle PROVE BorrowsOK'
    BY <1>2, <2>0, <2>10 DEF Return, BorrowsOK, MethodsType, Goto
  <2>11. ASSUME NEW t \in Threads, RecvNothing(t) \/ Remove(t) \/ Pop(t) PROVE BorrowsOK'
    <3>1. CASE Return(t)
      BY <2>10, <2>11, <3>1 DEF RecvNothing, Remove, Pop
    <3>2. CASE ~ Return(t)
      BY <1>2, <2>0, <2>11, <3>2 DEF RecvNothing, Remove, Pop, BorrowsOK, MethodsType, Goto, locals
    <3>3. QED
      BY <3>1, <3>2
  <2>12. ASSUME NEW t \in Threads,
                ConnectionsPanic(t) \/ AllocatePanic(t) \/ LookupPanic(t)
         PROVE  BorrowsOK'
    <3>1. PICK mutexes : Panic(t, mutexes)
      BY <2>12, Zenon DEF ConnectionsPanic, AllocatePanic, LookupPanic
    <3>2. QED
      BY <1>2, <2>0, <3>1 DEF Panic, BorrowsOK, MethodsType
  <2>13. CASE UNCHANGED vars
    BY <1>2, <2>13 DEF BorrowsOK, vars, locals
  <2>14. QED
    BY <1>2, <2>2, <2>3, <2>4, <2>5, <2>6, <2>7, <2>8, <2>9, <2>11, <2>12, <2>13 DEF Next, Step
<1>3. QED
  BY <1>1, <1>2, TypeInvariant, PTL DEF Spec

\* Reading a datagram numbers it freshly, and nothing copies it.
LEMMA HandsInvariant == Spec => []HandsOK
<1>1. Init => HandsOK
  BY DEF Init, HandsOK, Carries
<1>2. ASSUME TypeInv, HandsOK, [Next]_vars PROVE HandsOK'
  <2>0. MethodsType /\ LocalsOK /\ arrived \in Nat
    BY <1>2, SocketAssumption DEF TypeInv, TypeOK, HandlesType
  <2>i. \A t \in Threads : Carries(t) => packet[t].id \in Nat
    BY <2>0 DEF LocalsOK, Carries, Packet
  <2>1. ASSUME UNCHANGED arrived,
               \A u \in Threads : Carries(u)' => Carries(u) /\ packet'[u] = packet[u]
        PROVE  HandsOK'
    BY <1>2, <2>1 DEF HandsOK
  <2>2. ASSUME NEW t \in Threads, Recv(t) PROVE HandsOK'
    <3>1. /\ arrived' = arrived + 1 /\ packet'[t].id = arrived + 1
          /\ \A u \in Threads \ {t} : packet'[u] = packet[u] /\ pc'[u] = pc[u]
      BY <2>0, <2>2 DEF Recv, MethodsType, Goto
    <3>2. QED
      BY <1>2, <2>0, <2>i, <3>1 DEF HandsOK, Carries
  <2>3. ASSUME NEW t \in Threads,
               \/ \E ch \in Channel : Outgoing(t, ch)
               \/ \E h \in Handles : PollChannel(t, h) \/ Drop(t, h)
               \/ PollIncoming(t) \/ Take(t) \/ Claim(t) \/ Lookup(t) \/ Pop(t) \/ RecvNothing(t)
               \/ Route(t) \/ Push(t) \/ Check(t) \/ Announce(t)
               \/ Resolve(t) \/ Unlink(t) \/ Remove(t)
        PROVE  HandsOK'
    <3>1. /\ UNCHANGED arrived
          /\ \A u \in Threads : Carries(u)' => Carries(u) /\ packet'[u] = packet[u]
      BY <2>0, <2>3 DEF Outgoing, PollChannel, Drop, PollIncoming, Take, Claim, Lookup, Pop,
                        RecvNothing, Route, Push, Check, Received, AfterRecv, Announce, Resolve,
                        Unlink, Remove, Return, Goto, MethodsType, Carries, locals
    <3>2. QED
      BY <2>1, <3>1
  <2>4. ASSUME NEW t \in Threads,
               ConnectionsPanic(t) \/ AllocatePanic(t) \/ LookupPanic(t)
        PROVE  HandsOK'
    <3>1. PICK mutexes : Panic(t, mutexes)
      BY <2>4, Zenon DEF ConnectionsPanic, AllocatePanic, LookupPanic
    <3>2. QED
      BY <2>0, <2>1, <3>1 DEF Panic, MethodsType, Carries
  <2>5. CASE UNCHANGED vars
    BY <2>1, <2>5 DEF vars, locals, Carries
  <2>6. QED
    BY <1>2, <2>2, <2>3, <2>4, <2>5 DEF Next, Step
<1>3. QED
  BY <1>1, <1>2, TypeInvariant, PTL DEF Spec

-----------------------------------------------------------------------------
(***************************************************************************)
(* The refinement.  The abstract queues are those that the tables name; a  *)
(* close empties the abstract queue when it unlinks the channel.           *)
(***************************************************************************)
Closing == [t \in Threads |-> IF pc[t] \in {"resolve", "unlink"} THEN target[t] ELSE NoChannel]

\* A step that changes no queue, handle, close or delivery is invisible.
LEMMA MuxStutter ==
    ASSUME \A c \in Channel : Queue(c)' = Queue(c), UNCHANGED <<handle, last>>,
           Closing' = Closing, Delivered' = Delivered
    PROVE  UNCHANGED Mux!vars
BY DEF Mux!vars, Mux!Channel, Channel, Closing

\* The datagrams delivered change when a poll_recv pushes, and only then.
LEMMA DeliveredStep ==
    ASSUME TypeInv, HandsOK, SerialInv, [Next]_vars
    PROVE  \/ Delivered' = Delivered
           \/ \E t \in Threads : Push(t)
<1>0. MethodsType /\ LocalsOK /\ arrived \in Nat
  BY SocketAssumption DEF TypeInv, TypeOK, HandlesType
<1>1. ASSUME UNCHANGED arrived,
             \A u \in Threads : Carries(u)' = Carries(u)
                                /\ (Carries(u) => packet'[u] = packet[u])
      PROVE  Delivered' = Delivered
  BY <1>1 DEF Delivered, Carries
<1>2. ASSUME NEW t \in Threads, Recv(t) PROVE Delivered' = Delivered
  <2>1. /\ arrived' = arrived + 1 /\ packet'[t].id = arrived + 1
        /\ ~ Carries(t) /\ Carries(t)'
        /\ \A u \in Threads \ {t} : packet'[u] = packet[u] /\ Carries(u)' = Carries(u)
    BY <1>0, <1>2 DEF Recv, MethodsType, Goto, Carries
  <2>2. \A u \in Threads : Carries(u) => packet[u].id \in Nat /\ packet[u].id <= arrived
    BY <1>0 DEF HandsOK, LocalsOK, Carries, Packet
  <2>3. ASSUME NEW n PROVE n \in Delivered' <=> n \in Delivered
    <3>1. n \in Delivered' <=> n \in 1..(arrived + 1) /\ \A u \in Threads : Carries(u)' => packet'[u].id # n
      BY <2>1 DEF Delivered, Carries
    <3>2. n \in Delivered <=> n \in 1..arrived /\ \A u \in Threads : Carries(u) => packet[u].id # n
      BY DEF Delivered, Carries
    <3>3. (\A u \in Threads : Carries(u)' => packet'[u].id # n)
             <=> n # arrived + 1 /\ \A u \in Threads : Carries(u) => packet[u].id # n
      BY <2>1
    <3>4. QED
      BY <1>0, <3>1, <3>2, <3>3
  <2>4. QED
    BY <2>3 DEF Delivered
<1>3. ASSUME NEW t \in Threads,
             \/ \E ch \in Channel : Outgoing(t, ch)
             \/ \E h \in Handles : PollChannel(t, h) \/ Drop(t, h)
             \/ PollIncoming(t) \/ Take(t) \/ Claim(t) \/ Lookup(t) \/ Pop(t) \/ RecvNothing(t)
             \/ Route(t) \/ Check(t) \/ Announce(t)
             \/ Resolve(t) \/ Unlink(t) \/ Remove(t)
      PROVE  Delivered' = Delivered
  <2>1. /\ UNCHANGED arrived
        /\ \A u \in Threads : Carries(u)' = Carries(u)
                              /\ (Carries(u) => packet'[u] = packet[u])
    BY <1>0, <1>3 DEF Outgoing, PollChannel, Drop, PollIncoming, Take, Claim, Lookup, Pop,
                      RecvNothing, Route, Check, Received, AfterRecv, Announce, Resolve,
                      Unlink, Remove, Return, Goto, MethodsType, Carries, locals
  <2>2. QED
    BY <1>1, <2>1
<1>4. ASSUME NEW t \in Threads,
             ConnectionsPanic(t) \/ AllocatePanic(t) \/ LookupPanic(t)
      PROVE  FALSE
  BY <1>4, NoPanicStep
<1>5. CASE UNCHANGED vars
  BY <1>1, <1>5 DEF vars, locals, Carries
<1>6. QED
  BY <1>2, <1>3, <1>4, <1>5 DEF Next, Step

\* poll_recv's push delivers the datagram in its hands, once.
LEMMA PushDelivers ==
    ASSUME TypeInv, HandsOK, SerialInv, NEW t \in Threads, Push(t)
    PROVE  Mux!Deliver(packet[t]) /\ packet[t] \in Packet
<1>0. MethodsType /\ LocalsOK /\ arrived \in Nat
  BY SocketAssumption DEF TypeInv, TypeOK, HandlesType
<1>1. /\ packet[t] \in Packet /\ Carries(t) /\ ~ Carries(t)'
      /\ UNCHANGED <<arrived, packet, handle, last, target>>
      /\ \A u \in Threads \ {t} : pc'[u] = pc[u]
      /\ pc[t] = "push" /\ pc'[t] = "check"
  BY <1>0 DEF Push, LocalsOK, MethodsType, Goto, Carries, locals
<1>2. packet[t].id \in 1..arrived
  BY <1>0, <1>1 DEF HandsOK, Packet
<1>3. \A n : n \in Delivered <=> n \in 1..arrived /\ \A u \in Threads : Carries(u) => packet[u].id # n
  BY DEF Delivered, Carries
<1>4. \A n : n \in Delivered' <=> n \in 1..arrived /\ \A u \in Threads : Carries(u)' => packet[u].id # n
  BY <1>1 DEF Delivered, Carries
<1>5. packet[t].id \notin Delivered
  BY <1>1, <1>3
<1>6. Delivered' = Delivered \cup {packet[t].id}
  <2>1. ASSUME NEW n PROVE n \in Delivered' <=> n \in Delivered \/ n = packet[t].id
    <3>1. CASE n = packet[t].id
      <4>1. \A u \in Threads : Carries(u)' => packet[u].id # n
        BY <1>1, <3>1 DEF HandsOK, Carries
      <4>2. QED
        BY <1>2, <1>4, <3>1, <4>1
    <3>2. CASE n # packet[t].id
      BY <1>1, <1>3, <1>4, <3>2 DEF Carries
    <3>3. QED
      BY <3>1, <3>2
  <2>2. QED
    BY <2>1
<1>7. Closing' = Closing
  BY <1>1 DEF Closing
<1>8. ChannelOf(packet[t]) \in Channel
  BY <1>1, ChannelOfType
<1>9. [c \in Channel |-> Queue(c)]' =
         [[c \in Channel |-> Queue(c)] EXCEPT ![ChannelOf(packet[t])] = Append(@, packet[t])]
  BY <1>8, PushQueue
<1>10. QED
  BY <1>1, <1>5, <1>6, <1>7, <1>9 DEF Mux!Deliver, Mux!Channel, Channel, Closing, ChannelOf

\* poll_channel returns the oldest packet of the DtpChannel it polls.
LEMMA PopReceives ==
    ASSUME TypeInv, BorrowsOK, SerialInv, NEW t \in Threads, Pop(t),
           Queue(target[t]) # <<>>, Delivered' = Delivered
    PROVE  borrowed[t] \in Handles /\ Mux!Receive(borrowed[t])
<1>0. MethodsType /\ HandlesType /\ LocalsOK
  BY DEF TypeInv, TypeOK
<1>1. target[t] \in Channel /\ borrowed[t] \in Handles /\ handle[borrowed[t]] = target[t]
  BY <1>0 DEF Pop, LocalsOK, BorrowsOK, MethodsType
<1>2. Queue(target[t]) = connections[conn_id[t]]
  BY PopQueue
<1>3. /\ last' = [last EXCEPT ![target[t]] = Head(Queue(target[t])).id]
      /\ Return(t) /\ UNCHANGED handle /\ pc[t] = "pop"
  BY <1>2 DEF Pop
<1>4. Closing' = Closing
  BY <1>0, <1>3 DEF Return, Goto, MethodsType, Closing
<1>5. [c \in Channel |-> Queue(c)]' =
         [[c \in Channel |-> Queue(c)] EXCEPT ![target[t]] = Tail(@)]
  BY <1>1, PopQueue
<1>6. QED
  BY <1>1, <1>3, <1>4, <1>5, SentinelAssumption DEF Mux!Receive, Mux!Channel, Channel, Closing

\* Unlinking a channel throws away what waits on it, and nothing else.
LEMMA UnlinkDiscards ==
    ASSUME TypeInv, NEW t \in Threads, Unlink(t), Delivered' = Delivered
    PROVE  Mux!Discard(t)
<1>0. MethodsType /\ target[t] \in Channel /\ pc[t] = "unlink"
  BY DEF TypeInv, TypeOK, LocalsOK, Unlink
<1>1. Closing[t] = target[t] /\ Closing' = [Closing EXCEPT ![t] = NoChannel]
  BY <1>0 DEF Unlink, Goto, MethodsType, Closing, locals
<1>2. [c \in Channel |-> Queue(c)]' =
         [[c \in Channel |-> Queue(c)] EXCEPT ![target[t]] = <<>>]
  BY <1>0, UnlinkQueue
<1>3. UNCHANGED <<handle, last>>
  BY DEF Unlink
<1>4. QED
  BY <1>0, <1>1, <1>2, <1>3, SentinelAssumption DEF Mux!Discard, Mux!Channel, Channel, Closing

\* A handle for a channel is made: outgoing, or either path of poll_incoming.
LEMMA HandleOpens ==
    ASSUME NEW ch \in Channel, NewHandle(ch), \A c \in Channel : Queue(c)' = Queue(c),
           UNCHANGED last, Closing' = Closing, Delivered' = Delivered
    PROVE  \E h \in Handles : Mux!Open(h, ch)
<1>1. PICK h \in Handles : handle[h] = NoChannel /\ handle' = [handle EXCEPT ![h] = ch]
  BY DEF NewHandle
<1>2. Mux!Open(h, ch)
  BY <1>1 DEF Mux!Open, Mux!Channel, Channel, Closing
<1>3. QED
  BY <1>2

\* Every step of the socket is a step of the abstract multiplexer, or none.
LEMMA MuxStep ==
    ASSUME TypeInv, SlabOK, SerialInv, BorrowsOK, HandsOK, [Next]_vars
    PROVE  [Mux!Next]_(Mux!vars)
<1>0. MethodsType /\ HandlesType /\ LocalsOK
  BY DEF TypeInv, TypeOK
<1>m. Mux!Channel = Channel /\ Mux!Packet = Packet
  BY DEF Mux!Channel, Channel, Mux!Packet, Packet
<1>p. ASSUME NEW u \in Threads, Push(u) \/ Pop(u) \/ Unlink(u)
      PROVE  pc[u] \in {"push", "pop", "unlink"} /\ pc'[u] # pc[u]
  BY <1>0, <1>p DEF Push, Pop, Unlink, Return, Goto, MethodsType
<1>1. ASSUME NEW t \in Threads, Push(t) PROVE Mux!Next
  <2>1. packet[t] \in Packet /\ Mux!Deliver(packet[t])
    BY <1>1, PushDelivers
  <2>2. QED
    BY <1>m, <2>1 DEF Mux!Next
<1>2. ASSUME NEW t \in Threads, Unlink(t) PROVE Mux!Next
  <2>1. Delivered' = Delivered
    <3>1. ASSUME NEW u \in Threads, Push(u) PROVE FALSE
      BY <1>0, <1>2, <3>1 DEF Unlink, Push, Goto, MethodsType
    <3>2. QED
      BY <3>1, DeliveredStep
  <2>2. Mux!Discard(t)
    BY <1>2, <2>1, UnlinkDiscards
  <2>3. QED
    BY <2>2 DEF Mux!Next
<1>3. ASSUME NEW t \in Threads, Pop(t) PROVE [Mux!Next]_(Mux!vars)
  <2>1. Delivered' = Delivered
    <3>1. ASSUME NEW u \in Threads, Push(u) PROVE FALSE
      BY <1>0, <1>3, <3>1 DEF Pop, Push, Return, Goto, MethodsType
    <3>2. QED
      BY <3>1, DeliveredStep
  <2>2. CASE Queue(target[t]) # <<>>
    <3>1. borrowed[t] \in Handles /\ Mux!Receive(borrowed[t])
      BY <1>3, <2>1, <2>2, PopReceives
    <3>2. QED
      BY <3>1 DEF Mux!Next
  <2>3. CASE Queue(target[t]) = <<>>
    <3>1. \A c : Queue(c)' = Queue(c) /\ connections[conn_id[t]] = <<>>
      BY <1>3, <2>3, PopQueue
    <3>2. UNCHANGED <<handle, last>> /\ Closing' = Closing
      BY <1>0, <1>3, <3>1 DEF Pop, Goto, MethodsType, Closing, locals
    <3>3. QED
      BY <2>1, <3>1, <3>2, MuxStutter
  <2>4. QED
    BY <2>2, <2>3
<1>4. ASSUME ~ \E t \in Threads : Push(t) \/ Pop(t) \/ Unlink(t)
      PROVE  (\A c : Queue(c)' = Queue(c)) /\ Delivered' = Delivered
  BY <1>4, StepQueue, DeliveredStep
<1>5. ASSUME NEW t \in Threads, NEW ch \in Channel, Outgoing(t, ch) PROVE Mux!Next
  <2>1. (\A c : Queue(c)' = Queue(c)) /\ Delivered' = Delivered
    <3>1. ~ \E u \in Threads : Push(u) \/ Pop(u) \/ Unlink(u)
      BY <1>0, <1>p, <1>5 DEF Outgoing
    <3>2. QED
      BY <1>4, <3>1
  <2>2. NewHandle(ch) /\ UNCHANGED last /\ Closing' = Closing
    BY <1>5 DEF Outgoing, Closing, locals
  <2>3. QED
    BY <1>m, <2>1, <2>2, HandleOpens DEF Mux!Next
<1>6. ASSUME NEW t \in Threads, PollIncoming(t) PROVE [Mux!Next]_(Mux!vars)
  <2>1. (\A c : Queue(c)' = Queue(c)) /\ Delivered' = Delivered
    <3>1. ~ \E u \in Threads : Push(u) \/ Pop(u) \/ Unlink(u)
      BY <1>0, <1>p, <1>6 DEF PollIncoming, Goto, MethodsType
    <3>2. QED
      BY <1>4, <3>1
  <2>2. UNCHANGED last /\ Closing' = Closing
    BY <1>0, <1>6 DEF PollIncoming, Closing, Goto, MethodsType, locals
  <2>3. CASE incoming # <<>>
    <3>1. NewHandle(Head(incoming)) /\ Head(incoming) \in Channel
      BY <1>0, <1>6, <2>3 DEF PollIncoming, HandlesType
    <3>2. QED
      BY <1>m, <2>1, <2>2, <3>1, HandleOpens DEF Mux!Next
  <2>4. CASE incoming = <<>>
    BY <1>6, <2>1, <2>2, <2>4, MuxStutter DEF PollIncoming
  <2>5. QED
    BY <2>3, <2>4
<1>7. ASSUME NEW t \in Threads, Claim(t) PROVE [Mux!Next]_(Mux!vars)
  <2>1. (\A c : Queue(c)' = Queue(c)) /\ Delivered' = Delivered
    <3>1. ~ \E u \in Threads : Push(u) \/ Pop(u) \/ Unlink(u)
      BY <1>0, <1>p, <1>7 DEF Claim, Return, Goto, MethodsType
    <3>2. QED
      BY <1>4, <3>1
  <2>2. UNCHANGED last /\ Closing' = Closing /\ target[t] \in Channel
    BY <1>0, <1>7 DEF Claim, Return, Closing, Goto, MethodsType, LocalsOK
  <2>3. CASE target[t] \notin channels
    <3>1. NewHandle(target[t])
      BY <1>7, <2>3 DEF Claim
    <3>2. QED
      BY <1>m, <2>1, <2>2, <3>1, HandleOpens DEF Mux!Next
  <2>4. CASE target[t] \in channels
    BY <1>7, <2>1, <2>2, <2>4, MuxStutter DEF Claim
  <2>5. QED
    BY <2>3, <2>4
<1>8. ASSUME NEW t \in Threads, NEW h \in Handles, Drop(t, h) PROVE Mux!Next
  <2>1. (\A c : Queue(c)' = Queue(c)) /\ Delivered' = Delivered
    <3>1. ~ \E u \in Threads : Push(u) \/ Pop(u) \/ Unlink(u)
      BY <1>0, <1>p, <1>8 DEF Drop, Goto, MethodsType
    <3>2. QED
      BY <1>4, <3>1
  <2>2. /\ UNCHANGED last /\ handle[h] # NoChannel
        /\ handle' = [handle EXCEPT ![h] = NoChannel]
        /\ Closing[t] = NoChannel /\ Closing' = [Closing EXCEPT ![t] = handle[h]]
    BY <1>0, <1>8 DEF Drop, Closing, Goto, MethodsType
  <2>3. Mux!Close(t, h)
    BY <2>1, <2>2 DEF Mux!Close, Mux!Channel, Channel, Closing
  <2>4. QED
    BY <2>3 DEF Mux!Next
<1>9. ASSUME NEW t \in Threads,
             \/ \E h \in Handles : PollChannel(t, h)
             \/ Take(t) \/ Lookup(t) \/ Recv(t) \/ RecvNothing(t) \/ Route(t) \/ Check(t)
             \/ Announce(t) \/ Resolve(t) \/ Remove(t)
      PROVE  UNCHANGED Mux!vars
  <2>1. (\A c : Queue(c)' = Queue(c)) /\ Delivered' = Delivered
    <3>1. ~ \E u \in Threads : Push(u) \/ Pop(u) \/ Unlink(u)
      BY <1>0, <1>p, <1>9 DEF PollChannel, Take, Lookup, Recv, RecvNothing, Route, Check,
                              Announce, Resolve, Remove, Received, Return, Goto, MethodsType
    <3>2. QED
      BY <1>4, <3>1
  <2>2. UNCHANGED <<handle, last>> /\ Closing' = Closing
    BY <1>0, <1>9 DEF PollChannel, Take, Lookup, Recv, RecvNothing, Route, Check, Announce,
                      Resolve, Remove, Received, AfterRecv, Return, Closing, Goto, MethodsType
  <2>3. QED
    BY <2>1, <2>2, MuxStutter
<1>10. ASSUME NEW t \in Threads, ConnectionsPanic(t) \/ AllocatePanic(t) \/ LookupPanic(t)
       PROVE  FALSE
  BY <1>10, NoPanicStep
<1>11. CASE UNCHANGED vars
  <2>1. (\A c : Queue(c)' = Queue(c)) /\ Delivered' = Delivered /\ Closing' = Closing
    BY <1>11 DEF vars, slab, locals, Queue, Delivered, Closing
  <2>2. QED
    BY <1>11, <2>1, MuxStutter DEF vars
<1>12. QED
  BY <1>1, <1>2, <1>3, <1>5, <1>6, <1>7, <1>8, <1>9, <1>10, <1>11 DEF Next, Step

\* When nobody drops a DtpChannel, or there is one thread, the lookup table, the
\* slab with its reused keys and the separate locks implement a plain map from
\* channels to queues, for any number of threads and datagrams.
THEOREM SerialImplementsMux ==
    ASSUME SerialClose
    PROVE  Spec => ImplementsMux
<1>1. Init => Mux!Init
  <2>1. Init => (\A c : Queue(c) = <<>>) /\ Delivered = {}
    BY DEF Init, Queue, Delivered
  <2>2. QED
    BY <2>1 DEF Init, Mux!Init, Mux!Channel, Channel
<1>2. QED
  BY <1>1, MuxStep, TypeInvariant, SlabInvariant, SerialInvariant, BorrowsInvariant,
     HandsInvariant, PTL DEF Spec, ImplementsMux, Mux!Spec

================================================================================
