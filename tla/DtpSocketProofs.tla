---------------------------- MODULE DtpSocketProofs ----------------------------
(***************************************************************************)
(* What holds of the DTP multiplexer for any number of threads, channels,  *)
(* handles and datagrams.                                                  *)
(***************************************************************************)
EXTENDS DtpSocket, TLAPS

-----------------------------------------------------------------------------
(***************************************************************************)
(* Type correctness.                                                       *)
(***************************************************************************)

\* The locals a method still uses hold what their Rust types say, never the
\* sentinel.  TypeOK is not inductive without it: `close` removes target[t]
\* from the tables and poll_recv pushes packet[t].
LocalsOK ==
    \A t \in Threads :
        /\ pc[t] \in {"route", "push", "check", "announce"} => packet[t] \in Packet
        /\ pc[t] \in {"claim", "lookup", "pop", "resolve", "unlink", "remove"}
              => target[t] \in Channel
        /\ borrowed[t] # NoHandle => target[t] \in Channel
        /\ pc[t] \in {"take", "claim"} => borrowed[t] = NoHandle

TypeInv == TypeOK /\ LocalsOK

\* The channel that poll_recv makes of a datagram is a channel.
LEMMA ChannelOfType ==
    ASSUME NEW p \in Packet
    PROVE  ChannelOf(p) \in Channel
BY DEF ChannelOf, Packet, Channel

\* connection_id keeps the types of the tables it updates.
LEMMA ConnectionIdType ==
    ASSUME TypeOK, NEW t \in Threads, NEW ch \in Channel, ConnectionId(t, ch)
    PROVE  TablesType' /\ conn_id' \in [Threads -> Nat]
<1> USE DEF TypeOK, TablesType
<1>1. CASE ch \in DOMAIN channel_lookup
  BY <1>1 DEF ConnectionId, MethodsType, slab
<1>2. CASE ch \notin DOMAIN channel_lookup
  <2>1. vacant # <<>> => Head(vacant) \in Nat /\ Tail(vacant) \in Seq(Nat)
    OBVIOUS
  <2>2. SlabKey \in Nat
    BY <2>1 DEF SlabKey
  <2>3. /\ conn_id' = [conn_id EXCEPT ![t] = SlabKey]
        /\ channel_lookup' = Put(channel_lookup, ch, SlabKey)
        /\ SlabInsert
    BY <1>2 DEF ConnectionId
  <2>4. channel_lookup' \in [DOMAIN channel_lookup \cup {ch} -> Nat]
    BY <2>2, <2>3 DEF Put
  <2>5. connections' \in [DOMAIN connections \cup {SlabKey} -> Seq(Packet)]
    <3>1. <<>> \in Seq(Packet)
      OBVIOUS
    <3>2. QED
      BY <2>3, <3>1 DEF SlabInsert, Put
  <2>6. slots' \in Nat /\ vacant' \in Seq(Nat)
    <3>1. CASE vacant = <<>>
      BY <2>3, <3>1 DEF SlabInsert
    <3>2. CASE vacant # <<>>
      BY <2>1, <2>3, <3>2 DEF SlabInsert
    <3>3. QED
      BY <3>1, <3>2
  <2>7. conn_id' \in [Threads -> Nat]
    BY <2>2, <2>3 DEF MethodsType
  <2>8. QED
    BY <2>2, <2>4, <2>5, <2>6, <2>7
<1>3. QED
  BY <1>1, <1>2

\* A method that returns leaves well-typed locals.
LEMMA ReturnType ==
    ASSUME TypeInv, NEW t \in Threads, Return(t)
    PROVE  MethodsType' /\ LocalsOK'
BY SocketAssumption DEF TypeInv, TypeOK, MethodsType, LocalsOK, Return, Goto, PcSet

\* The tables of the socket and the locals of every method keep their types,
\* whatever the threads do, panics included.
LEMMA TypeInvariant == Spec => []TypeInv
<1>1. Init => TypeInv
  BY SocketAssumption, SentinelAssumption
     DEF Init, TypeInv, TypeOK, TablesType, HandlesType, MethodsType, LocalsOK, PcSet
<1>2. ASSUME TypeInv, [Next]_vars PROVE TypeInv'
  <2>0. TypeInv /\ TypeOK /\ LocalsOK /\ TablesType /\ HandlesType /\ MethodsType
    BY <1>2 DEF TypeInv, TypeOK
  <2>s. TablesType' /\ HandlesType' /\ MethodsType' /\ LocalsOK' => TypeInv'
    BY DEF TypeInv, TypeOK
  <2>1. ASSUME NEW t \in Threads, NEW ch \in Channel, Outgoing(t, ch) PROVE TypeInv'
    <3>1. TablesType' /\ MethodsType' /\ LocalsOK'
      BY <2>0, <2>1 DEF Outgoing, TablesType, MethodsType, LocalsOK, slab, locals
    <3>2. HandlesType'
      BY <2>0, <2>1 DEF Outgoing, HandlesType, NewHandle
    <3>3. QED
      BY <2>s, <3>1, <3>2
  <2>2. ASSUME NEW t \in Threads, PollIncoming(t) PROVE TypeInv'
    <3>1. incoming # <<>> => Head(incoming) \in Channel /\ Tail(incoming) \in Seq(Channel)
      BY <2>0 DEF HandlesType
    <3>2. TablesType' /\ MethodsType' /\ LocalsOK'
      BY <2>0, <2>2 DEF PollIncoming, TablesType, MethodsType, LocalsOK, Goto, PcSet, slab, locals
    <3>3. HandlesType'
      BY <2>0, <2>2, <3>1 DEF PollIncoming, HandlesType, NewHandle
    <3>4. QED
      BY <2>s, <3>2, <3>3
  <2>3. ASSUME NEW t \in Threads, NEW h \in Handles, PollChannel(t, h) PROVE TypeInv'
    <3>1. handle[h] \in Channel
      BY <2>0, <2>3 DEF PollChannel, HandlesType
    <3>2. TablesType' /\ HandlesType'
      BY <2>0, <2>3 DEF PollChannel, TablesType, HandlesType, slab
    <3>3. MethodsType' /\ LocalsOK'
      BY <2>0, <2>3, <3>1 DEF PollChannel, MethodsType, LocalsOK, Goto, PcSet
    <3>4. QED
      BY <2>s, <3>2, <3>3
  <2>4. ASSUME NEW t \in Threads, NEW h \in Handles, Drop(t, h) PROVE TypeInv'
    <3>1. handle[h] \in Channel
      BY <2>0, <2>4 DEF Drop, HandlesType
    <3>2. TablesType' /\ HandlesType'
      BY <2>0, <2>4 DEF Drop, TablesType, HandlesType, slab
    <3>3. MethodsType' /\ LocalsOK'
      BY <2>0, <2>4, <3>1 DEF Drop, MethodsType, LocalsOK, Goto, PcSet
    <3>4. QED
      BY <2>s, <3>2, <3>3
  <2>5. ASSUME NEW t \in Threads, Take(t) PROVE TypeInv'
    <3>1. incoming # <<>> => Head(incoming) \in Channel /\ Tail(incoming) \in Seq(Channel)
      BY <2>0 DEF HandlesType
    <3>2. TablesType' /\ HandlesType'
      BY <2>0, <2>5, <3>1 DEF Take, TablesType, HandlesType, slab
    <3>3. MethodsType' /\ LocalsOK'
      BY <2>0, <2>5, <3>1 DEF Take, MethodsType, LocalsOK, Goto, PcSet
    <3>4. QED
      BY <2>s, <3>2, <3>3
  <2>6. ASSUME NEW t \in Threads, Claim(t) PROVE TypeInv'
    <3>1. target[t] \in Channel
      BY <2>0, <2>6 DEF Claim, LocalsOK
    <3>2. TablesType' /\ HandlesType'
      BY <2>0, <2>6, <3>1 DEF Claim, TablesType, HandlesType, NewHandle, slab
    <3>3. CASE target[t] \notin channels
      BY <2>0, <2>6, <2>s, <3>2, <3>3, ReturnType DEF Claim
    <3>4. CASE target[t] \in channels
      <4>1. MethodsType' /\ LocalsOK'
        <5>1. /\ Goto(t, "recv")
              /\ target' = [target EXCEPT ![t] = NoChannel]
              /\ UNCHANGED <<borrowed, packet, conn_id>>
          BY <2>6, <3>4 DEF Claim
        <5>2. borrowed[t] = NoHandle
          BY <2>0, <2>6 DEF Claim, LocalsOK
        <5>3. QED
          BY <2>0, <5>1, <5>2 DEF MethodsType, LocalsOK, Goto, PcSet
      <4>2. QED
        BY <2>s, <3>2, <4>1
    <3>5. QED
      BY <3>3, <3>4
  <2>7. ASSUME NEW t \in Threads, Pop(t) PROVE TypeInv'
    <3> DEFINE queue == connections[conn_id[t]]
    <3>1. queue \in Seq(Packet)
      BY <2>0, <2>7 DEF TablesType, Pop, Usable
    <3>2. queue # <<>> => Head(queue) \in Packet /\ Tail(queue) \in Seq(Packet)
      BY <3>1
    <3>3. queue # <<>> => Head(queue).id \in 0..MaxDatagrams
      BY <3>2 DEF Packet
    <3>4. CASE queue # <<>>
      <4>1. /\ connections' = [connections EXCEPT ![conn_id[t]] = Tail(queue)]
            /\ last' = [last EXCEPT ![target[t]] = Head(queue).id]
            /\ Return(t)
            /\ UNCHANGED <<channel_lookup, slots, vacant, channels, incoming, poisoned, handle,
                           arrived>>
        BY <2>7, <3>4 DEF Pop
      <4>2. TablesType'
        BY <2>0, <3>2, <3>4, <4>1 DEF TablesType
      <4>3. HandlesType'
        BY <2>0, <3>3, <3>4, <4>1 DEF HandlesType
      <4>4. QED
        BY <2>0, <2>s, <4>1, <4>2, <4>3, ReturnType
    <3>5. CASE queue = <<>>
      <4>1. TablesType' /\ HandlesType'
        BY <2>0, <2>7, <3>5 DEF Pop, TablesType, HandlesType
      <4>2. MethodsType' /\ LocalsOK'
        BY <2>0, <2>7, <3>5 DEF Pop, MethodsType, LocalsOK, Goto, PcSet, locals
      <4>3. QED
        BY <2>s, <4>1, <4>2
    <3>6. QED
      BY <3>4, <3>5
  <2>8. ASSUME NEW t \in Threads, Recv(t) PROVE TypeInv'
    <3>1. PICK p \in Peers, c \in ChanIds :
             packet' = [packet EXCEPT ![t] = [from |-> p, channel_id |-> c, id |-> arrived + 1]]
      BY <2>8 DEF Recv
    <3>2. arrived + 1 \in 1..MaxDatagrams
      BY <2>0, <2>8, SocketAssumption DEF Recv, HandlesType
    <3>3. [from |-> p, channel_id |-> c, id |-> arrived + 1] \in Packet
      BY <3>2 DEF Packet
    <3>4. TablesType' /\ HandlesType'
      BY <2>0, <2>8, <3>2, SocketAssumption DEF Recv, TablesType, HandlesType, slab
    <3>5. MethodsType' /\ LocalsOK'
      BY <2>0, <2>8, <3>1, <3>3 DEF Recv, MethodsType, LocalsOK, Goto, PcSet
    <3>6. QED
      BY <2>s, <3>4, <3>5
  <2>9. ASSUME NEW t \in Threads, RecvNothing(t) PROVE TypeInv'
    <3>1. TablesType' /\ HandlesType'
      BY <2>0, <2>9 DEF RecvNothing, TablesType, HandlesType, slab
    <3>2. QED
      BY <2>0, <2>9, <2>s, <3>1, ReturnType DEF RecvNothing
  <2>10. ASSUME NEW t \in Threads, Push(t) PROVE TypeInv'
    <3>1. Append(connections[conn_id[t]], packet[t]) \in Seq(Packet)
      BY <2>0, <2>10 DEF Push, Usable, TablesType, LocalsOK
    <3>2. TablesType' /\ HandlesType'
      BY <2>0, <2>10, <3>1 DEF Push, TablesType, HandlesType
    <3>3. MethodsType' /\ LocalsOK'
      BY <2>0, <2>10 DEF Push, MethodsType, LocalsOK, Goto, PcSet, locals
    <3>4. QED
      BY <2>s, <3>2, <3>3
  <2>11. ASSUME NEW t \in Threads, Check(t) PROVE TypeInv'
    <3>1. TablesType' /\ HandlesType'
      BY <2>0, <2>11 DEF Check, TablesType, HandlesType, slab
    <3>2. MethodsType' /\ LocalsOK'
      BY <2>0, <2>11 DEF Check, Received, AfterRecv, MethodsType, LocalsOK, Goto, PcSet
    <3>3. QED
      BY <2>s, <3>1, <3>2
  <2>12. ASSUME NEW t \in Threads, Announce(t) PROVE TypeInv'
    <3>1. ChannelOf(packet[t]) \in Channel
      BY <2>0, <2>12, ChannelOfType DEF Announce, LocalsOK
    <3>2. TablesType' /\ HandlesType'
      BY <2>0, <2>12, <3>1 DEF Announce, TablesType, HandlesType, slab
    <3>3. MethodsType' /\ LocalsOK'
      BY <2>0, <2>12 DEF Announce, Received, AfterRecv, MethodsType, LocalsOK, Goto, PcSet
    <3>4. QED
      BY <2>s, <3>2, <3>3
  <2>13. ASSUME NEW t \in Threads, Lookup(t) PROVE TypeInv'
    <3>1. target[t] \in Channel /\ ConnectionId(t, target[t])
      BY <2>0, <2>13 DEF Lookup, LocalsOK
    <3>2. TablesType' /\ conn_id' \in [Threads -> Nat]
      BY <2>0, <3>1, ConnectionIdType
    <3>3. HandlesType' /\ MethodsType' /\ LocalsOK'
      BY <2>0, <2>13, <3>1, <3>2 DEF Lookup, HandlesType, MethodsType, LocalsOK, Goto, PcSet
    <3>4. QED
      BY <2>s, <3>2, <3>3
  <2>14. ASSUME NEW t \in Threads, Route(t) PROVE TypeInv'
    <3>1. ChannelOf(packet[t]) \in Channel /\ ConnectionId(t, ChannelOf(packet[t]))
      BY <2>0, <2>14, ChannelOfType DEF Route, LocalsOK
    <3>2. TablesType' /\ conn_id' \in [Threads -> Nat]
      BY <2>0, <3>1, ConnectionIdType
    <3>3. HandlesType' /\ MethodsType' /\ LocalsOK'
      BY <2>0, <2>14, <3>2 DEF Route, HandlesType, MethodsType, LocalsOK, Goto, PcSet
    <3>4. QED
      BY <2>s, <3>2, <3>3
  <2>15. ASSUME NEW t \in Threads, Resolve(t) PROVE TypeInv'
    <3>1. target[t] \in Channel /\ ConnectionId(t, target[t])
      BY <2>0, <2>15 DEF Resolve, LocalsOK
    <3>2. TablesType' /\ conn_id' \in [Threads -> Nat]
      BY <2>0, <3>1, ConnectionIdType
    <3>3. HandlesType' /\ MethodsType' /\ LocalsOK'
      BY <2>0, <2>15, <3>1, <3>2 DEF Resolve, HandlesType, MethodsType, LocalsOK, Goto, PcSet
    <3>4. QED
      BY <2>s, <3>2, <3>3
  <2>16. ASSUME NEW t \in Threads, Unlink(t) PROVE TypeInv'
    <3>1. channel_lookup' \in [DOMAIN channel_lookup \ {target[t]} -> Nat]
      BY <2>0, <2>16 DEF Unlink, TablesType, Del
    <3>2. TablesType' /\ HandlesType'
      BY <2>0, <2>16, <3>1 DEF Unlink, TablesType, HandlesType, slab
    <3>3. MethodsType' /\ LocalsOK'
      BY <2>0, <2>16 DEF Unlink, MethodsType, LocalsOK, Goto, PcSet, locals
    <3>4. QED
      BY <2>s, <3>2, <3>3
  <2>17. ASSUME NEW t \in Threads, Remove(t) PROVE TypeInv'
    <3>1. connections' \in [DOMAIN connections \ {conn_id[t]} -> Seq(Packet)]
      BY <2>0, <2>17 DEF Remove, SlabRemove, TablesType, Del
    <3>2. vacant' \in Seq(Nat)
      BY <2>0, <2>17 DEF Remove, SlabRemove, TablesType, MethodsType
    <3>3. TablesType' /\ HandlesType'
      BY <2>0, <2>17, <3>1, <3>2 DEF Remove, SlabRemove, TablesType, HandlesType
    <3>4. QED
      BY <2>0, <2>17, <2>s, <3>3, ReturnType DEF Remove
  <2>18. ASSUME NEW t \in Threads,
                ConnectionsPanic(t) \/ AllocatePanic(t) \/ LookupPanic(t)
         PROVE  TypeInv'
    <3>1. PICK mutexes \in SUBSET {"channel_lookup", "connections"} : Panic(t, mutexes)
      BY <2>18, Zenon DEF ConnectionsPanic, AllocatePanic, LookupPanic
    <3>2. TablesType' /\ HandlesType'
      BY <2>0, <3>1 DEF Panic, TablesType, HandlesType, slab
    <3>3. MethodsType' /\ LocalsOK'
      BY <2>0, <3>1 DEF Panic, MethodsType, LocalsOK, PcSet
    <3>4. QED
      BY <2>s, <3>2, <3>3
  <2>19. CASE UNCHANGED vars
    <3>1. TablesType' /\ HandlesType' /\ MethodsType' /\ LocalsOK'
      BY <2>0, <2>19 DEF TablesType, HandlesType, MethodsType, LocalsOK, vars, slab, locals
    <3>2. QED
      BY <2>s, <3>1
  <2>20. QED
    BY <1>2, <2>1, <2>2, <2>3, <2>4, <2>5, <2>6, <2>7, <2>8, <2>9, <2>10, <2>11, <2>12,
       <2>13, <2>14, <2>15, <2>16, <2>17, <2>18, <2>19 DEF Next, Step
<1>3. QED
  BY <1>1, <1>2, PTL DEF Spec

\* The state of the socket always has the type its declarations say.
THEOREM TypeCorrect == Spec => []TypeOK
<1>1. TypeInv => TypeOK
  BY DEF TypeInv
<1>2. QED
  BY <1>1, TypeInvariant, PTL

-----------------------------------------------------------------------------
(***************************************************************************)
(* The slab.                                                               *)
(***************************************************************************)

\* The slab's free list: keys below the length of the slab, each of them free
\* and listed once.
SlabOK ==
    /\ \A k \in DOMAIN connections : k < slots
    /\ \A i \in DOMAIN vacant : vacant[i] < slots /\ vacant[i] \notin DOMAIN connections
    /\ \A i, j \in DOMAIN vacant : vacant[i] = vacant[j] => i = j

\* The key of the next insert is free.
LEMMA SlabKeyFresh ==
    ASSUME TypeOK, SlabOK
    PROVE  SlabKey \in Nat /\ SlabKey \notin DOMAIN connections
<1>1. CASE vacant = <<>>
  BY <1>1 DEF SlabKey, SlabOK, TypeOK, TablesType
<1>2. CASE vacant # <<>>
  <2>1. 1 \in DOMAIN vacant /\ Head(vacant) = vacant[1] /\ vacant[1] \in Nat
    BY <1>2 DEF TypeOK, TablesType
  <2>2. QED
    BY <1>2, <2>1 DEF SlabKey, SlabOK
<1>3. QED
  BY <1>1, <1>2

\* Slab::insert and Slab::remove keep the free list right.
LEMMA SlabInsertOK ==
    ASSUME TypeOK, SlabOK, SlabInsert
    PROVE  SlabOK'
<1>1. SlabKey \in Nat /\ SlabKey \notin DOMAIN connections
  BY SlabKeyFresh
<1>2. DOMAIN connections' = DOMAIN connections \cup {SlabKey}
  BY DEF SlabInsert, Put
<1>3. CASE vacant = <<>>
  <2>1. vacant' = <<>> /\ slots' = slots + 1 /\ SlabKey = slots /\ slots \in Nat
    BY <1>3 DEF SlabInsert, SlabKey, TypeOK, TablesType
  <2>2. \A k \in DOMAIN connections : k \in Nat /\ k < slots
    BY DEF SlabOK, TypeOK, TablesType
  <2>3. QED
    BY <1>2, <2>1, <2>2 DEF SlabOK
<1>4. CASE vacant # <<>>
  <2>1. /\ vacant \in Seq(Nat) /\ vacant' = Tail(vacant) /\ slots' = slots
        /\ SlabKey = Head(vacant)
    BY <1>4 DEF SlabInsert, SlabKey, TypeOK, TablesType
  <2>2. /\ 1 \in DOMAIN vacant /\ SlabKey = vacant[1]
        /\ \A i \in DOMAIN vacant' :
              i + 1 \in DOMAIN vacant /\ i + 1 # 1 /\ vacant'[i] = vacant[i + 1]
        /\ \A i \in DOMAIN vacant' : i \in Nat
    BY <1>4, <2>1
  <2>3. \A k \in DOMAIN connections' : k < slots'
    BY <1>2, <2>1, <2>2 DEF SlabOK
  <2>4. \A i \in DOMAIN vacant' : vacant'[i] < slots' /\ vacant'[i] \notin DOMAIN connections'
    BY <1>2, <2>1, <2>2 DEF SlabOK
  <2>5. \A i, j \in DOMAIN vacant' : vacant'[i] = vacant'[j] => i = j
    <3>1. \A i, j \in DOMAIN vacant' : vacant'[i] = vacant'[j] => i + 1 = j + 1
      BY <2>2 DEF SlabOK
    <3>2. QED
      BY <2>2, <3>1
  <2>6. QED
    BY <2>3, <2>4, <2>5 DEF SlabOK
<1>5. QED
  BY <1>3, <1>4

\* Slab::remove puts the key it frees on the free list, once.
LEMMA SlabRemoveOK ==
    ASSUME TypeOK, SlabOK, NEW k \in DOMAIN connections, SlabRemove(k)
    PROVE  SlabOK'
<1>1. DOMAIN connections' = DOMAIN connections \ {k} /\ slots' = slots
  BY DEF SlabRemove, Del
<1>2. vacant \in Seq(Nat) /\ vacant' = <<k>> \o vacant /\ k \in Nat
  BY DEF SlabRemove, TypeOK, TablesType
<1>3. /\ \A i \in DOMAIN vacant' : i \in Nat
      /\ \A i \in DOMAIN vacant' : \/ i = 1 /\ vacant'[i] = k
                                   \/ i - 1 \in DOMAIN vacant /\ vacant'[i] = vacant[i - 1]
  BY <1>2
<1>4. \A i \in DOMAIN vacant' : vacant'[i] < slots' /\ vacant'[i] \notin DOMAIN connections'
  BY <1>1, <1>3 DEF SlabOK
<1>5. \A i, j \in DOMAIN vacant' : vacant'[i] = vacant'[j] => i = j
  <2>1. SUFFICES ASSUME NEW i \in DOMAIN vacant', NEW j \in DOMAIN vacant',
                        vacant'[i] = vacant'[j]
                 PROVE  i = j
    OBVIOUS
  <2>2. CASE i = 1 /\ vacant'[i] = k
    BY <1>3, <2>1, <2>2 DEF SlabOK
  <2>3. CASE i - 1 \in DOMAIN vacant /\ vacant'[i] = vacant[i - 1]
    <3>1. j - 1 \in DOMAIN vacant /\ vacant'[j] = vacant[j - 1]
      BY <1>3, <2>1, <2>3 DEF SlabOK
    <3>2. i - 1 = j - 1
      BY <2>1, <2>3, <3>1 DEF SlabOK
    <3>3. QED
      BY <1>3, <3>2
  <2>4. QED
    BY <1>3, <2>2, <2>3
<1>6. QED
  BY <1>1, <1>4, <1>5 DEF SlabOK

\* What connection_id does to the tables: it either finds the channel's key or
\* links the channel to a fresh, empty queue; no other channel notices.
LEMMA ConnectionIdEffect ==
    ASSUME TypeOK, SlabOK, NEW t \in Threads, NEW ch \in Channel, ConnectionId(t, ch)
    PROVE  /\ SlabOK'
           /\ DOMAIN channel_lookup' = DOMAIN channel_lookup \cup {ch}
           /\ \A c \in DOMAIN channel_lookup : channel_lookup'[c] = channel_lookup[c]
           /\ conn_id' = [conn_id EXCEPT ![t] = channel_lookup'[ch]]
           /\ \/ /\ ch \in DOMAIN channel_lookup
                 /\ connections' = connections
              \/ /\ ch \notin DOMAIN channel_lookup
                 /\ channel_lookup'[ch] \notin DOMAIN connections
                 /\ DOMAIN connections' = DOMAIN connections \cup {channel_lookup'[ch]}
                 /\ connections'[channel_lookup'[ch]] = <<>>
                 /\ \A k \in DOMAIN connections : connections'[k] = connections[k]
<1>1. CASE ch \in DOMAIN channel_lookup
  <2>1. UNCHANGED <<channel_lookup, slab>> /\ conn_id' = [conn_id EXCEPT ![t] = channel_lookup[ch]]
    BY <1>1 DEF ConnectionId
  <2>2. QED
    BY <1>1, <2>1 DEF SlabOK, slab
<1>2. CASE ch \notin DOMAIN channel_lookup
  <2>1. /\ conn_id' = [conn_id EXCEPT ![t] = SlabKey]
        /\ channel_lookup' = Put(channel_lookup, ch, SlabKey)
        /\ SlabInsert
    BY <1>2 DEF ConnectionId
  <2>2. SlabKey \notin DOMAIN connections /\ SlabOK'
    BY <2>1, SlabKeyFresh, SlabInsertOK
  <2>3. connections' = Put(connections, SlabKey, <<>>)
    BY <2>1 DEF SlabInsert
  <2>4. QED
    BY <1>2, <2>1, <2>2, <2>3 DEF Put
<1>3. QED
  BY <1>1, <1>2

\* The free list of the slab is right whatever the threads do: Slab::remove
\* panics rather than free a key twice.
LEMMA SlabInvariant == Spec => []SlabOK
<1>1. Init => SlabOK
  BY DEF Init, SlabOK
<1>2. ASSUME TypeInv, SlabOK, [Next]_vars PROVE SlabOK'
  <2>0. TypeOK /\ LocalsOK
    BY <1>2 DEF TypeInv
  <2>1. ASSUME NEW t \in Threads, Lookup(t) \/ Resolve(t) PROVE SlabOK'
    <3>1. target[t] \in Channel /\ ConnectionId(t, target[t])
      BY <2>0, <2>1 DEF Lookup, Resolve, LocalsOK
    <3>2. QED
      BY <1>2, <2>0, <3>1, ConnectionIdEffect
  <2>2. ASSUME NEW t \in Threads, Route(t) PROVE SlabOK'
    <3>1. ChannelOf(packet[t]) \in Channel /\ ConnectionId(t, ChannelOf(packet[t]))
      BY <2>0, <2>2, ChannelOfType DEF Route, LocalsOK
    <3>2. QED
      BY <1>2, <2>0, <3>1, ConnectionIdEffect
  <2>3. ASSUME NEW t \in Threads, Remove(t) PROVE SlabOK'
    BY <1>2, <2>0, <2>3, SlabRemoveOK DEF Remove, Usable
  <2>4. ASSUME NEW t \in Threads, Pop(t) \/ Push(t) PROVE SlabOK'
    <3>1. DOMAIN connections' = DOMAIN connections /\ UNCHANGED <<slots, vacant>>
      BY <2>4 DEF Pop, Push
    <3>2. QED
      BY <1>2, <3>1 DEF SlabOK
  <2>5. ASSUME UNCHANGED slab PROVE SlabOK'
    BY <1>2, <2>5 DEF SlabOK, slab
  <2>6. ASSUME NEW t \in Threads,
               \/ \E ch \in Channel : Outgoing(t, ch)
               \/ \E h \in Handles : PollChannel(t, h) \/ Drop(t, h)
               \/ PollIncoming(t) \/ Take(t) \/ Claim(t) \/ Recv(t) \/ RecvNothing(t)
               \/ Check(t) \/ Announce(t) \/ Unlink(t)
               \/ ConnectionsPanic(t) \/ AllocatePanic(t) \/ LookupPanic(t)
        PROVE  UNCHANGED slab
    BY <2>6 DEF Outgoing, PollChannel, Drop, PollIncoming, Take, Claim, Recv, RecvNothing, Check,
                Announce, Unlink, ConnectionsPanic, AllocatePanic, LookupPanic, Panic
  <2>7. CASE UNCHANGED vars
    BY <2>5, <2>7 DEF vars
  <2>8. QED
    BY <1>2, <2>1, <2>2, <2>3, <2>4, <2>5, <2>6, <2>7 DEF Next, Step
<1>3. QED
  BY <1>1, <1>2, TypeInvariant, PTL DEF Spec

-----------------------------------------------------------------------------
(***************************************************************************)
(* Serial closing.  The tables stay consistent as long as no DtpChannel is *)
(* dropped while another thread is inside the socket: nobody drops one, or *)
(* there is one thread.                                                    *)
(***************************************************************************)
SerialClose == Closers = {} \/ \A t, u \in Threads : t = u

\* Key k is the entry of channel ch.
Names(ch, k) == ch \in DOMAIN channel_lookup /\ channel_lookup[ch] = k

\* A slab key that a method took from connection_id is still the key of its
\* channel when it is used, after the lock was released in between.
IdsOK ==
    \A t \in Threads :
        /\ pc[t] = "push" => Names(ChannelOf(packet[t]), conn_id[t])
        /\ pc[t] \in {"pop", "unlink"} => Names(target[t], conn_id[t])
        /\ pc[t] = "remove" => /\ conn_id[t] \in DOMAIN connections
                               /\ \A c \in DOMAIN channel_lookup :
                                      channel_lookup[c] # conn_id[t]
        /\ pc[t] \in {"resolve", "unlink", "remove"} => t \in Closers

Healthy == NoPanic /\ poisoned = {}

SerialInv == TablesAgree /\ IdsOK /\ Healthy

\* Steps that leave the tables alone and move one thread to a label at which
\* it holds no slab key.
LEMMA TablesUntouched ==
    ASSUME TypeOK, SerialInv, NEW t \in Threads,
           UNCHANGED <<channel_lookup, slab, poisoned>>,
           pc' \in [Threads -> PcSet],
           \A u \in Threads \ {t} : /\ pc'[u] = pc[u] /\ packet'[u] = packet[u]
                                    /\ target'[u] = target[u] /\ conn_id'[u] = conn_id[u],
           pc[t] # "remove",
           pc'[t] \notin {"push", "pop", "unlink", "remove", "panicked"},
           pc'[t] = "resolve" => t \in Closers
    PROVE  SerialInv'
<1>1. DOMAIN connections' = DOMAIN connections
  BY DEF slab
<1>2. TablesAgree'
  BY <1>1 DEF SerialInv, TablesAgree
<1>3. IdsOK'
  BY <1>1 DEF SerialInv, IdsOK, Names
<1>4. Healthy'
  BY DEF SerialInv, Healthy, NoPanic
<1>5. QED
  BY <1>2, <1>3, <1>4 DEF SerialInv

\* connection_id keeps the tables consistent.
LEMMA ConnectionIdSerial ==
    ASSUME TypeInv, SlabOK, SerialInv,
           NEW t \in Threads, NEW ch \in Channel, ConnectionId(t, ch), NEW l,
           pc[t] \in {"lookup", "route", "resolve"},
           Goto(t, l), UNCHANGED <<packet, target, poisoned>>,
           \/ l = "push" /\ ch = ChannelOf(packet[t])
           \/ l = "pop" /\ ch = target[t]
           \/ l = "unlink" /\ ch = target[t] /\ pc[t] = "resolve"
    PROVE  SerialInv'
<1>0. TypeOK /\ MethodsType /\ TablesType /\ TablesAgree /\ IdsOK /\ Healthy
  BY DEF TypeInv, TypeOK, SerialInv
<1> DEFINE key == channel_lookup'[ch]
<1>1. /\ DOMAIN channel_lookup' = DOMAIN channel_lookup \cup {ch}
      /\ \A c \in DOMAIN channel_lookup : channel_lookup'[c] = channel_lookup[c]
      /\ conn_id' = [conn_id EXCEPT ![t] = key]
      /\ DOMAIN connections' = DOMAIN connections \cup {key}
      /\ ch \in DOMAIN channel_lookup \/ key \notin DOMAIN connections
  <2>1. ch \in DOMAIN channel_lookup => channel_lookup[ch] \in DOMAIN connections
    BY <1>0 DEF TablesAgree
  <2>2. CASE ch \in DOMAIN channel_lookup
    <3>1. connections' = connections
      BY <1>0, <2>2, ConnectionIdEffect
    <3>2. /\ DOMAIN channel_lookup' = DOMAIN channel_lookup \cup {ch}
          /\ \A c \in DOMAIN channel_lookup : channel_lookup'[c] = channel_lookup[c]
          /\ conn_id' = [conn_id EXCEPT ![t] = key]
      BY <1>0, ConnectionIdEffect
    <3>3. key \in DOMAIN connections
      BY <2>1, <2>2, <3>2
    <3>4. QED
      BY <2>2, <3>1, <3>2, <3>3
  <2>3. CASE ch \notin DOMAIN channel_lookup
    BY <1>0, <2>3, ConnectionIdEffect
  <2>4. QED
    BY <2>2, <2>3
<1>2. \A u \in Threads \ {t} : pc'[u] = pc[u] /\ conn_id'[u] = conn_id[u]
  BY <1>0, <1>1 DEF MethodsType, Goto
<1>3. pc'[t] = l /\ conn_id'[t] = key /\ pc[t] # "remove"
  BY <1>0, <1>1 DEF MethodsType, Goto
<1>4. TablesAgree'
  <2>1. \A c, d \in DOMAIN channel_lookup' : channel_lookup'[c] = channel_lookup'[d] => c = d
    BY <1>0, <1>1 DEF TablesAgree
  <2>2. \A c \in DOMAIN channel_lookup' : channel_lookup'[c] \in DOMAIN connections'
    BY <1>0, <1>1 DEF TablesAgree
  <2>3. \A k \in DOMAIN connections' :
           \/ \E c \in DOMAIN channel_lookup' : channel_lookup'[c] = k
           \/ \E u \in Threads : pc'[u] = "remove" /\ conn_id'[u] = k
    <3>1. SUFFICES ASSUME NEW k \in DOMAIN connections', k # key
                   PROVE  \/ \E c \in DOMAIN channel_lookup' : channel_lookup'[c] = k
                          \/ \E u \in Threads : pc'[u] = "remove" /\ conn_id'[u] = k
      BY <1>1
    <3>2. CASE \E c \in DOMAIN channel_lookup : channel_lookup[c] = k
      BY <1>1, <3>2
    <3>3. CASE \E u \in Threads : pc[u] = "remove" /\ conn_id[u] = k
      BY <1>2, <1>3, <3>3
    <3>4. QED
      BY <1>0, <1>1, <3>1, <3>2, <3>3 DEF TablesAgree
  <2>4. QED
    BY <2>1, <2>2, <2>3 DEF TablesAgree
<1>5. IdsOK'
  <2>1. SUFFICES ASSUME NEW u \in Threads
        PROVE  /\ pc'[u] = "push" => Names(ChannelOf(packet[u]), conn_id[u])'
               /\ pc'[u] \in {"pop", "unlink"} => Names(target[u], conn_id[u])'
               /\ pc'[u] = "remove" => /\ conn_id'[u] \in DOMAIN connections'
                                       /\ \A c \in DOMAIN channel_lookup' :
                                              channel_lookup'[c] # conn_id'[u]
               /\ pc'[u] \in {"resolve", "unlink", "remove"} => u \in Closers
    BY DEF IdsOK
  <2>2. CASE u = t
    BY <1>0, <1>1, <1>3, <2>2 DEF IdsOK, Names
  <2>3. CASE u # t
    <3>1. pc'[u] = pc[u] /\ conn_id'[u] = conn_id[u] /\ packet'[u] = packet[u]
          /\ target'[u] = target[u]
      BY <1>2, <2>3
    <3>2. \A c \in Channel : Names(c, conn_id[u]) => Names(c, conn_id[u])'
      BY <1>1, <3>1 DEF Names
    <3>3. pc[u] \in {"pop", "unlink"} => target[u] \in Channel
      BY DEF TypeInv, LocalsOK
    <3>4. pc[u] = "push" => ChannelOf(packet[u]) \in Channel
      BY ChannelOfType DEF TypeInv, LocalsOK
    <3>5. pc[u] = "remove" => \A c \in DOMAIN channel_lookup' : channel_lookup'[c] # conn_id[u]
      BY <1>0, <1>1 DEF IdsOK, TablesAgree
    <3>6. QED
      BY <1>0, <1>1, <3>1, <3>2, <3>3, <3>4, <3>5 DEF IdsOK, Names
  <2>4. QED
    BY <2>2, <2>3
<1>6. Healthy'
  BY <1>0, <1>2, <1>3 DEF Healthy, NoPanic
<1>7. QED
  BY <1>4, <1>5, <1>6 DEF SerialInv

\* In such a state no unwrap fails.
LEMMA NoPanicStep ==
    ASSUME SerialInv, NEW t \in Threads
    PROVE  ~ (ConnectionsPanic(t) \/ AllocatePanic(t) \/ LookupPanic(t))
<1>1. poisoned = {}
  BY DEF SerialInv, Healthy
<1>2. ~ AllocatePanic(t) /\ ~ LookupPanic(t)
  BY <1>1 DEF AllocatePanic, LookupPanic
<1>3. pc[t] \in {"push", "pop", "remove"} => conn_id[t] \in DOMAIN connections
  BY DEF SerialInv, IdsOK, TablesAgree, Names
<1>4. QED
  BY <1>1, <1>2, <1>3 DEF ConnectionsPanic, Usable

\* Under serial closing no unwrap on the slab fails, no mutex is poisoned and
\* the two tables agree.
LEMMA SerialInvariant ==
    ASSUME SerialClose
    PROVE  Spec => []SerialInv
<1>1. Init => SerialInv
  BY DEF Init, SerialInv, TablesAgree, IdsOK, Healthy, NoPanic
<1>2. ASSUME TypeInv, TypeInv', SlabOK, SerialInv, [Next]_vars PROVE SerialInv'
  <2>0. /\ TypeOK /\ LocalsOK /\ MethodsType /\ MethodsType' /\ HandlesType
        /\ TablesAgree /\ IdsOK /\ Healthy
    BY <1>2 DEF TypeInv, TypeOK, SerialInv
  <2>1. ASSUME NEW t \in Threads, NEW ch \in Channel, Outgoing(t, ch) PROVE SerialInv'
    BY <1>2, <2>0, <2>1, TablesUntouched DEF Outgoing, MethodsType, locals
  <2>2. ASSUME NEW t \in Threads, PollIncoming(t) PROVE SerialInv'
    BY <1>2, <2>0, <2>2, TablesUntouched DEF PollIncoming, MethodsType, locals, Goto
  <2>3. ASSUME NEW t \in Threads, NEW h \in Handles, PollChannel(t, h) PROVE SerialInv'
    BY <1>2, <2>0, <2>3, TablesUntouched DEF PollChannel, MethodsType, Goto
  <2>4. ASSUME NEW t \in Threads, NEW h \in Handles, Drop(t, h) PROVE SerialInv'
    BY <1>2, <2>0, <2>4, TablesUntouched DEF Drop, MethodsType, Goto
  <2>5. ASSUME NEW t \in Threads, Take(t) PROVE SerialInv'
    BY <1>2, <2>0, <2>5, TablesUntouched DEF Take, MethodsType, Goto
  <2>6. ASSUME NEW t \in Threads, Claim(t) PROVE SerialInv'
    BY <1>2, <2>0, <2>6, TablesUntouched DEF Claim, Return, MethodsType, Goto
  <2>7. ASSUME NEW t \in Threads, Recv(t) PROVE SerialInv'
    BY <1>2, <2>0, <2>7, TablesUntouched DEF Recv, MethodsType, Goto
  <2>8. ASSUME NEW t \in Threads, RecvNothing(t) PROVE SerialInv'
    BY <1>2, <2>0, <2>8, TablesUntouched DEF RecvNothing, Return, MethodsType, Goto
  <2>9. ASSUME NEW t \in Threads, Check(t) PROVE SerialInv'
    BY <1>2, <2>0, <2>9, TablesUntouched DEF Check, Received, AfterRecv, MethodsType, Goto
  <2>10. ASSUME NEW t \in Threads, Announce(t) PROVE SerialInv'
    BY <1>2, <2>0, <2>10, TablesUntouched DEF Announce, Received, AfterRecv, MethodsType, Goto
  <2>11. ASSUME NEW t \in Threads, Lookup(t) PROVE SerialInv'
    <3>1. target[t] \in Channel
      BY <2>0, <2>11 DEF Lookup, LocalsOK
    <3>2. QED
      BY <1>2, <2>11, <3>1, ConnectionIdSerial DEF Lookup
  <2>12. ASSUME NEW t \in Threads, Route(t) PROVE SerialInv'
    <3>1. ChannelOf(packet[t]) \in Channel
      BY <2>0, <2>12, ChannelOfType DEF Route, LocalsOK
    <3>2. QED
      BY <1>2, <2>12, <3>1, ConnectionIdSerial DEF Route
  <2>13. ASSUME NEW t \in Threads, Resolve(t) PROVE SerialInv'
    <3>1. target[t] \in Channel
      BY <2>0, <2>13 DEF Resolve, LocalsOK
    <3>2. QED
      BY <1>2, <2>13, <3>1, ConnectionIdSerial DEF Resolve
  <2>14. ASSUME NEW t \in Threads, Pop(t) \/ Push(t) PROVE SerialInv'
    <3>1. /\ DOMAIN connections' = DOMAIN connections
          /\ UNCHANGED <<channel_lookup, poisoned>>
      BY <2>14 DEF Pop, Push
    <3>2. /\ pc[t] \in {"pop", "push"}
          /\ pc'[t] \in {"idle", "recv", "check"}
          /\ \A u \in Threads \ {t} : /\ pc'[u] = pc[u] /\ packet'[u] = packet[u]
                                      /\ target'[u] = target[u] /\ conn_id'[u] = conn_id[u]
      BY <2>0, <2>14 DEF Pop, Push, Return, Goto, MethodsType, locals
    <3>3. TablesAgree'
      BY <2>0, <3>1, <3>2 DEF TablesAgree
    <3>4. IdsOK'
      BY <2>0, <3>1, <3>2 DEF IdsOK, Names
    <3>5. Healthy'
      BY <2>0, <3>1, <3>2 DEF Healthy, NoPanic
    <3>6. QED
      BY <3>3, <3>4, <3>5 DEF SerialInv
  <2>15. ASSUME NEW t \in Threads, Unlink(t) PROVE SerialInv'
    <3>1. t \in Closers /\ \A u \in Threads : u = t
      BY <2>0, <2>15, SerialClose DEF Unlink, IdsOK, SerialClose
    <3>2. Names(target[t], conn_id[t])
      BY <2>0, <2>15 DEF Unlink, IdsOK
    <3>3. /\ DOMAIN channel_lookup' = DOMAIN channel_lookup \ {target[t]}
          /\ \A c \in DOMAIN channel_lookup' : channel_lookup'[c] = channel_lookup[c]
          /\ UNCHANGED <<connections, conn_id, poisoned>>
          /\ pc'[t] = "remove"
      BY <2>0, <2>15 DEF Unlink, Del, Goto, MethodsType, slab, locals
    <3>4. pc[t] # "remove"
      BY <2>15 DEF Unlink
    <3>5. TablesAgree'
      BY <2>0, <3>1, <3>2, <3>3, <3>4 DEF TablesAgree, Names
    <3>6. IdsOK'
      BY <2>0, <3>1, <3>2, <3>3 DEF IdsOK, TablesAgree, Names
    <3>7. Healthy'
      BY <2>0, <3>1, <3>3 DEF Healthy, NoPanic
    <3>8. QED
      BY <3>5, <3>6, <3>7 DEF SerialInv
  <2>16. ASSUME NEW t \in Threads, Remove(t) PROVE SerialInv'
    <3>1. t \in Closers /\ \A u \in Threads : u = t
      BY <2>0, <2>16, SerialClose DEF Remove, IdsOK, SerialClose
    <3>2. \A c \in DOMAIN channel_lookup : channel_lookup[c] # conn_id[t]
      BY <2>0, <2>16 DEF Remove, IdsOK
    <3>3. /\ DOMAIN connections' = DOMAIN connections \ {conn_id[t]}
          /\ UNCHANGED <<channel_lookup, poisoned>>
          /\ pc'[t] = "idle"
      BY <2>0, <2>16 DEF Remove, SlabRemove, Del, Return, Goto, MethodsType
    <3>4. TablesAgree'
      BY <2>0, <3>1, <3>2, <3>3 DEF TablesAgree
    <3>5. IdsOK'
      BY <3>1, <3>3 DEF IdsOK
    <3>6. Healthy'
      BY <2>0, <3>1, <3>3 DEF Healthy, NoPanic
    <3>7. QED
      BY <3>4, <3>5, <3>6 DEF SerialInv
  <2>17. ASSUME NEW t \in Threads,
                ConnectionsPanic(t) \/ AllocatePanic(t) \/ LookupPanic(t)
         PROVE  FALSE
    BY <1>2, <2>17, NoPanicStep
  <2>18. CASE UNCHANGED vars
    BY <2>0, <2>18 DEF SerialInv, TablesAgree, IdsOK, Names, Healthy, NoPanic, vars, slab, locals
  <2>19. QED
    BY <1>2, <2>1, <2>2, <2>3, <2>4, <2>5, <2>6, <2>7, <2>8, <2>9, <2>10, <2>11, <2>12,
       <2>13, <2>14, <2>15, <2>16, <2>17, <2>18 DEF Next, Step
<1>3. QED
  BY <1>1, <1>2, TypeInvariant, SlabInvariant, PTL DEF Spec

-----------------------------------------------------------------------------
(***************************************************************************)
(* What each step does to the queue of a channel, seen through the tables. *)
(***************************************************************************)

\* A queue holds packets.
LEMMA QueueType ==
    ASSUME TypeOK, NEW ch
    PROVE  Queue(ch) \in Seq(Packet)
BY DEF Queue, TypeOK, TablesType

\* connection_id changes nobody's queue.
LEMMA ConnectionIdQueue ==
    ASSUME TypeOK, SlabOK, TablesAgree,
           NEW t \in Threads, NEW ch \in Channel, ConnectionId(t, ch), NEW c
    PROVE  Queue(c)' = Queue(c)
<1>1. CASE ch \in DOMAIN channel_lookup
  BY <1>1 DEF ConnectionId, Queue, slab
<1>2. CASE ch \notin DOMAIN channel_lookup
  <2>1. /\ DOMAIN channel_lookup' = DOMAIN channel_lookup \cup {ch}
        /\ \A d \in DOMAIN channel_lookup : channel_lookup'[d] = channel_lookup[d]
        /\ channel_lookup'[ch] \notin DOMAIN connections
        /\ DOMAIN connections' = DOMAIN connections \cup {channel_lookup'[ch]}
        /\ connections'[channel_lookup'[ch]] = <<>>
        /\ \A k \in DOMAIN connections : connections'[k] = connections[k]
    BY <1>2, ConnectionIdEffect
  <2>2. CASE c = ch
    BY <1>2, <2>1, <2>2 DEF Queue
  <2>3. CASE c # ch
    BY <1>2, <2>1, <2>3 DEF Queue, TablesAgree
  <2>4. QED
    BY <2>2, <2>3
<1>3. QED
  BY <1>1, <1>2

\* poll_recv appends the datagram to the queue of the datagram's own channel.
LEMMA PushQueue ==
    ASSUME TypeInv, SerialInv, NEW t \in Threads, Push(t), NEW c
    PROVE  Queue(c)' = IF c = ChannelOf(packet[t]) THEN Append(Queue(c), packet[t])
                                                   ELSE Queue(c)
<1>1. Names(ChannelOf(packet[t]), conn_id[t]) /\ TablesAgree
  BY DEF SerialInv, IdsOK, Push
<1>2. /\ conn_id[t] \in DOMAIN connections
      /\ connections' = [connections EXCEPT ![conn_id[t]] = Append(@, packet[t])]
      /\ channel_lookup' = channel_lookup
  BY DEF Push, Usable
<1>3. CASE c = ChannelOf(packet[t])
  BY <1>1, <1>2, <1>3 DEF Queue, Names
<1>4. CASE c # ChannelOf(packet[t])
  BY <1>1, <1>2, <1>4 DEF Queue, Names, TablesAgree
<1>5. QED
  BY <1>3, <1>4

\* poll_channel returns the oldest packet of its own channel's queue.
LEMMA PopQueue ==
    ASSUME TypeInv, SerialInv, NEW t \in Threads, Pop(t), NEW c
    PROVE  /\ Queue(target[t]) = connections[conn_id[t]]
           /\ \/ /\ Queue(target[t]) # <<>>
                 /\ Queue(c)' = IF c = target[t] THEN Tail(Queue(c)) ELSE Queue(c)
              \/ /\ Queue(target[t]) = <<>>
                 /\ Queue(c)' = Queue(c)
<1>1. Names(target[t], conn_id[t]) /\ TablesAgree
  BY DEF SerialInv, IdsOK, Pop
<1>2. conn_id[t] \in DOMAIN connections /\ channel_lookup' = channel_lookup
  BY DEF Pop, Usable
<1>3. Queue(target[t]) = connections[conn_id[t]]
  BY <1>1, <1>2 DEF Queue, Names
<1>4. CASE Queue(target[t]) # <<>>
  <2>1. connections' = [connections EXCEPT ![conn_id[t]] = Tail(connections[conn_id[t]])]
    BY <1>3, <1>4 DEF Pop
  <2>2. CASE c = target[t]
    BY <1>1, <1>2, <1>3, <1>4, <2>1, <2>2 DEF Queue, Names
  <2>3. CASE c # target[t]
    BY <1>1, <1>2, <1>3, <1>4, <2>1, <2>3 DEF Queue, Names, TablesAgree
  <2>4. QED
    BY <1>3, <1>4, <2>2, <2>3
<1>5. CASE Queue(target[t]) = <<>>
  <2>1. connections' = connections
    BY <1>3, <1>5 DEF Pop
  <2>2. QED
    BY <1>2, <1>3, <1>5, <2>1 DEF Queue
<1>6. QED
  BY <1>4, <1>5

\* close throws away the queue of its own channel, and that one only.
LEMMA UnlinkQueue ==
    ASSUME NEW t \in Threads, Unlink(t), NEW c
    PROVE  Queue(c)' = IF c = target[t] THEN <<>> ELSE Queue(c)
BY DEF Unlink, Del, Queue, slab

\* Freeing the unlinked slab entry, the second half of close, changes no queue.
LEMMA RemoveQueue ==
    ASSUME SerialInv, NEW t \in Threads, Remove(t), NEW c
    PROVE  Queue(c)' = Queue(c)
<1>1. \A d \in DOMAIN channel_lookup : channel_lookup[d] # conn_id[t]
  BY DEF SerialInv, IdsOK, Remove
<1>2. channel_lookup' = channel_lookup /\ connections' = Del(connections, conn_id[t])
  BY DEF Remove, SlabRemove
<1>3. QED
  BY <1>1, <1>2 DEF Queue, Del

\* Only poll_recv, poll_channel and close change the queue of a channel.
LEMMA StepQueue ==
    ASSUME TypeInv, SlabOK, SerialInv, [Next]_vars
    PROVE  \/ \A c : Queue(c)' = Queue(c)
           \/ \E t \in Threads : Push(t) \/ Pop(t) \/ Unlink(t)
<1>0. TypeOK /\ LocalsOK /\ TablesAgree
  BY DEF TypeInv, SerialInv
<1>1. ASSUME UNCHANGED <<channel_lookup, connections>> PROVE \A c : Queue(c)' = Queue(c)
  BY <1>1 DEF Queue
<1>2. ASSUME NEW t \in Threads, Lookup(t) \/ Resolve(t) PROVE \A c : Queue(c)' = Queue(c)
  <2>1. target[t] \in Channel /\ ConnectionId(t, target[t])
    BY <1>0, <1>2 DEF Lookup, Resolve, LocalsOK
  <2>2. QED
    BY <1>0, <2>1, ConnectionIdQueue
<1>3. ASSUME NEW t \in Threads, Route(t) PROVE \A c : Queue(c)' = Queue(c)
  <2>1. ChannelOf(packet[t]) \in Channel /\ ConnectionId(t, ChannelOf(packet[t]))
    BY <1>0, <1>3, ChannelOfType DEF Route, LocalsOK
  <2>2. QED
    BY <1>0, <2>1, ConnectionIdQueue
<1>4. ASSUME NEW t \in Threads, Remove(t) PROVE \A c : Queue(c)' = Queue(c)
  BY <1>4, RemoveQueue
<1>5. ASSUME NEW t \in Threads,
             \/ \E ch \in Channel : Outgoing(t, ch)
             \/ \E h \in Handles : PollChannel(t, h) \/ Drop(t, h)
             \/ PollIncoming(t) \/ Take(t) \/ Claim(t) \/ Recv(t) \/ RecvNothing(t)
             \/ Check(t) \/ Announce(t)
             \/ ConnectionsPanic(t) \/ AllocatePanic(t) \/ LookupPanic(t)
      PROVE  UNCHANGED <<channel_lookup, connections>>
  BY <1>5 DEF Outgoing, PollChannel, Drop, PollIncoming, Take, Claim, Recv, RecvNothing, Check,
              Announce, ConnectionsPanic, AllocatePanic, LookupPanic, Panic, slab
<1>6. CASE UNCHANGED vars
  BY <1>1, <1>6 DEF vars, slab
<1>7. QED
  BY <1>1, <1>2, <1>3, <1>4, <1>5, <1>6 DEF Next, Step

\* Under serial closing a packet only ever waits on the channel of its sender
\* and of its first byte, however often slab keys are reused.
LEMMA RoutingInvariant ==
    ASSUME SerialClose
    PROVE  Spec => []PacketRouting
<1> DEFINE Routed == \A c \in Channel : \A i \in DOMAIN Queue(c) : ChannelOf(Queue(c)[i]) = c
<1>1. Init => Routed
  BY DEF Init, Queue
<1>2. ASSUME TypeInv, SlabOK, SerialInv, Routed, [Next]_vars PROVE Routed'
  <2>1. SUFFICES ASSUME NEW c \in Channel, NEW i \in DOMAIN Queue(c)'
                 PROVE  ChannelOf(Queue(c)'[i]) = c
    BY DEF ChannelOf
  <2>2. TypeOK /\ Queue(c) \in Seq(Packet) /\ \A j \in DOMAIN Queue(c) : ChannelOf(Queue(c)[j]) = c
    BY <1>2, QueueType DEF TypeInv
  <2>3. CASE Queue(c)' = Queue(c)
    BY <2>1, <2>2, <2>3
  <2>4. ASSUME NEW t \in Threads, Push(t) PROVE ChannelOf(Queue(c)'[i]) = c
    <3>1. CASE c = ChannelOf(packet[t])
      <4>1. Queue(c)' = Append(Queue(c), packet[t])
        BY <1>2, <2>4, <3>1, PushQueue
      <4>2. \/ i \in DOMAIN Queue(c) /\ Queue(c)'[i] = Queue(c)[i]
            \/ Queue(c)'[i] = packet[t]
        BY <2>1, <2>2, <4>1
      <4>3. QED
        BY <2>2, <3>1, <4>2
    <3>2. CASE c # ChannelOf(packet[t])
      BY <1>2, <2>3, <2>4, <3>2, PushQueue
    <3>3. QED
      BY <3>1, <3>2
  <2>5. ASSUME NEW t \in Threads, Pop(t) PROVE ChannelOf(Queue(c)'[i]) = c
    <3>1. CASE Queue(c)' = Tail(Queue(c)) /\ Queue(c) # <<>>
      <4>1. i + 1 \in DOMAIN Queue(c) /\ Queue(c)'[i] = Queue(c)[i + 1]
        BY <2>1, <2>2, <3>1
      <4>2. QED
        BY <2>2, <4>1
    <3>2. QED
      BY <1>2, <2>3, <2>5, <3>1, PopQueue
  <2>6. ASSUME NEW t \in Threads, Unlink(t) PROVE ChannelOf(Queue(c)'[i]) = c
    <3>1. Queue(c)' # <<>>
      BY <2>1
    <3>2. QED
      BY <2>3, <2>6, <3>1, UnlinkQueue
  <2>7. QED
    BY <1>2, <2>3, <2>4, <2>5, <2>6, StepQueue
<1>3. TypeInv /\ Routed => PacketRouting
  BY DEF PacketRouting, TypeInv, TypeOK, TablesType
<1>4. QED
  BY <1>1, <1>2, <1>3, TypeInvariant, SlabInvariant, SerialInvariant, PTL DEF Spec

-----------------------------------------------------------------------------
(***************************************************************************)
(* No packet is stranded.                                                  *)
(***************************************************************************)

\* A channel in `channels` has a DtpChannel: only taking a channel inserts it.
Taken == \A ch \in channels : Owned(ch)

\* Somebody will see the packets of ch: the right-hand side of PacketsClaimable.
Claimable(ch) ==
    \/ Owned(ch)
    \/ \E i \in DOMAIN incoming : incoming[i] = ch
    \/ \E t \in Threads :
          \/ pc[t] \in {"check", "announce"} /\ ChannelOf(packet[t]) = ch
          \/ pc[t] \in {"claim", "resolve", "unlink"} /\ target[t] = ch

\* The set of taken channels follows the handles, whatever the threads do.
LEMMA TakenInvariant == Spec => []Taken
<1>1. Init => Taken
  BY DEF Init, Taken
<1>2. ASSUME TypeInv, Taken, [Next]_vars PROVE Taken'
  <2>0. HandlesType /\ LocalsOK
    BY <1>2 DEF TypeInv, TypeOK
  <2>1. ASSUME NEW t \in Threads, NEW ch \in Channel, Outgoing(t, ch) PROVE Taken'
    BY <1>2, <2>0, <2>1, SentinelAssumption
       DEF Taken, Owned, Outgoing, NewHandle, HandlesType
  <2>2. ASSUME NEW t \in Threads, Claim(t) PROVE Taken'
    <3>1. target[t] \in Channel
      BY <2>0, <2>2 DEF Claim, LocalsOK
    <3>2. QED
      BY <1>2, <2>0, <2>2, <3>1, SentinelAssumption DEF Taken, Owned, Claim, NewHandle, HandlesType
  <2>3. ASSUME NEW t \in Threads, PollIncoming(t) PROVE Taken'
    BY <1>2, <2>0, <2>3, SentinelAssumption DEF Taken, Owned, PollIncoming, NewHandle, HandlesType
  <2>4. ASSUME NEW t \in Threads, NEW h \in Handles, Drop(t, h) PROVE Taken'
    BY <1>2, <2>0, <2>4 DEF Taken, Owned, Drop, HandlesType
  <2>5. ASSUME UNCHANGED <<channels, handle>> PROVE Taken'
    BY <1>2, <2>5 DEF Taken, Owned
  <2>6. ASSUME NEW t \in Threads,
               \/ \E h \in Handles : PollChannel(t, h)
               \/ Take(t) \/ Lookup(t) \/ Pop(t) \/ Recv(t) \/ RecvNothing(t) \/ Route(t)
               \/ Push(t) \/ Check(t) \/ Announce(t) \/ Resolve(t) \/ Unlink(t) \/ Remove(t)
               \/ ConnectionsPanic(t) \/ AllocatePanic(t) \/ LookupPanic(t)
        PROVE  UNCHANGED <<channels, handle>>
    BY <2>6 DEF PollChannel, Take, Lookup, Pop, Recv, RecvNothing, Route, Push, Check, Announce,
                Resolve, Unlink, Remove, ConnectionsPanic, AllocatePanic, LookupPanic, Panic
  <2>7. CASE UNCHANGED vars
    BY <2>5, <2>7 DEF vars
  <2>8. QED
    BY <1>2, <2>1, <2>2, <2>3, <2>4, <2>5, <2>6, <2>7 DEF Next, Step
<1>3. QED
  BY <1>1, <1>2, TypeInvariant, PTL DEF Spec

\* Under serial closing a channel that somebody will see stays so, until a
\* close has thrown its queue away.
LEMMA ClaimableStable ==
    ASSUME TypeInv, TypeInv', Taken, SerialInv, SerialClose, [Next]_vars,
           NEW c \in Channel, Claimable(c)
    PROVE  Claimable(c)' \/ \E t \in Threads : Unlink(t) /\ target[t] = c
<1>0. MethodsType /\ HandlesType /\ HandlesType' /\ LocalsOK
  BY DEF TypeInv, TypeOK
<1>n. c # NoChannel
  BY SentinelAssumption
<1>k. ASSUME UNCHANGED handle, UNCHANGED incoming, NEW t \in Threads,
             \A u \in Threads \ {t} : pc'[u] = pc[u] /\ packet'[u] = packet[u]
                                      /\ target'[u] = target[u],
             pc[t] \notin {"check", "announce", "claim", "resolve", "unlink"}
      PROVE  Claimable(c)'
  <2>1. CASE Owned(c) \/ \E i \in DOMAIN incoming : incoming[i] = c
    BY <1>k, <2>1 DEF Claimable, Owned
  <2>2. ASSUME NEW u \in Threads,
               \/ pc[u] \in {"check", "announce"} /\ ChannelOf(packet[u]) = c
               \/ pc[u] \in {"claim", "resolve", "unlink"} /\ target[u] = c
        PROVE  Claimable(c)'
    <3>1. u # t
      BY <1>k, <2>2
    <3>2. pc'[u] = pc[u] /\ packet'[u] = packet[u] /\ target'[u] = target[u]
      BY <1>k, <3>1
    <3>3. \/ pc'[u] \in {"check", "announce"} /\ ChannelOf(packet[u])' = c
          \/ pc'[u] \in {"claim", "resolve", "unlink"} /\ target'[u] = c
      BY <2>2, <3>2
    <3>4. QED
      BY <3>3 DEF Claimable
  <2>3. QED
    BY <2>1, <2>2 DEF Claimable
<1>1. ASSUME NEW t \in Threads, NEW ch \in Channel, Outgoing(t, ch) PROVE Claimable(c)'
  BY <1>0, <1>1, <1>n DEF Outgoing, NewHandle, HandlesType, Claimable, Owned, locals
<1>2. ASSUME NEW t \in Threads, PollIncoming(t) PROVE Claimable(c)'
  <2>1. CASE incoming = <<>>
    BY <1>0, <1>2, <1>k, <2>1 DEF PollIncoming, MethodsType, Goto, locals
  <2>2. CASE incoming # <<>>
    <3>1. /\ incoming' = Tail(incoming) /\ NewHandle(Head(incoming))
          /\ UNCHANGED <<pc, packet, target>>
      BY <1>2, <2>2 DEF PollIncoming, locals
    <3>2. Owned(c) => Owned(c)'
      BY <1>0, <1>n, <3>1 DEF Owned, NewHandle, HandlesType
    <3>3. Head(incoming) = c => Owned(c)'
      BY <1>0, <3>1 DEF Owned, NewHandle, HandlesType
    <3>4. ASSUME NEW i \in DOMAIN incoming, incoming[i] = c, Head(incoming) # c
          PROVE  \E j \in DOMAIN incoming' : incoming'[j] = c
      <4>1. i - 1 \in DOMAIN Tail(incoming) /\ Tail(incoming)[i - 1] = incoming[i]
        BY <1>0, <2>2, <3>4 DEF HandlesType
      <4>2. QED
        BY <3>1, <3>4, <4>1
    <3>5. QED
      BY <3>1, <3>2, <3>3, <3>4 DEF Claimable
  <2>3. QED
    BY <2>1, <2>2
<1>3. ASSUME NEW t \in Threads, Take(t) PROVE Claimable(c)'
  <2>1. CASE incoming = <<>>
    BY <1>0, <1>3, <1>k, <2>1 DEF Take, MethodsType, Goto
  <2>2. CASE incoming # <<>>
    <3>1. /\ incoming' = Tail(incoming) /\ UNCHANGED <<handle, packet>>
          /\ pc'[t] = "claim" /\ target'[t] = Head(incoming) /\ pc[t] = "take"
          /\ \A u \in Threads \ {t} : pc'[u] = pc[u] /\ target'[u] = target[u]
      BY <1>0, <1>3, <2>2 DEF Take, MethodsType, Goto
    <3>2. Head(incoming) = c => Claimable(c)'
      BY <3>1 DEF Claimable
    <3>3. ASSUME NEW i \in DOMAIN incoming, incoming[i] = c, Head(incoming) # c
          PROVE  \E j \in DOMAIN incoming' : incoming'[j] = c
      <4>1. i - 1 \in DOMAIN Tail(incoming) /\ Tail(incoming)[i - 1] = incoming[i]
        BY <1>0, <2>2, <3>3 DEF HandlesType
      <4>2. QED
        BY <3>1, <3>3, <4>1
    <3>4. ASSUME NEW u \in Threads,
                 \/ pc[u] \in {"check", "announce"} /\ ChannelOf(packet[u]) = c
                 \/ pc[u] \in {"claim", "resolve", "unlink"} /\ target[u] = c
          PROVE  Claimable(c)'
      <4>1. u # t
        BY <3>1, <3>4
      <4>2. QED
        BY <3>1, <3>4, <4>1 DEF Claimable
    <3>5. QED
      BY <3>1, <3>2, <3>3, <3>4 DEF Claimable, Owned
  <2>3. QED
    BY <2>1, <2>2
<1>4. ASSUME NEW t \in Threads, Claim(t) PROVE Claimable(c)'
  <2>1. /\ \A u \in Threads \ {t} : pc'[u] = pc[u] /\ packet'[u] = packet[u]
                                    /\ target'[u] = target[u]
        /\ incoming' = incoming /\ pc[t] = "claim"
    BY <1>0, <1>4 DEF Claim, Return, MethodsType, Goto
  <2>2. Owned(c) => Owned(c)'
    BY <1>0, <1>4, <1>n DEF Claim, NewHandle, HandlesType, Owned
  <2>3. target[t] = c => Owned(c)'
    <3>1. CASE target[t] \in channels
      BY <1>4, <2>2, <3>1 DEF Claim, Taken
    <3>2. CASE target[t] \notin channels
      BY <1>0, <1>4, <3>2 DEF Claim, NewHandle, HandlesType, Owned
    <3>3. QED
      BY <3>1, <3>2
  <2>4. ASSUME NEW u \in Threads,
               \/ pc[u] \in {"check", "announce"} /\ ChannelOf(packet[u]) = c
               \/ pc[u] \in {"claim", "resolve", "unlink"} /\ target[u] = c
        PROVE  Claimable(c)'
    <3>1. CASE u = t
      BY <2>1, <2>3, <2>4, <3>1 DEF Claimable
    <3>2. CASE u # t
      BY <2>1, <2>4, <3>2 DEF Claimable
    <3>3. QED
      BY <3>1, <3>2
  <2>5. QED
    BY <2>1, <2>2, <2>4 DEF Claimable
<1>5. ASSUME NEW t \in Threads,
             \/ \E h \in Handles : PollChannel(t, h)
             \/ Lookup(t) \/ Pop(t) \/ Recv(t) \/ RecvNothing(t) \/ Route(t) \/ Push(t) \/ Remove(t)
      PROVE  Claimable(c)'
  BY <1>0, <1>5, <1>k DEF PollChannel, Lookup, Pop, Recv, RecvNothing, Route, Push, Remove,
                          Return, Goto, MethodsType, locals
<1>6. ASSUME NEW t \in Threads, Check(t) PROVE Claimable(c)'
  <2>1. /\ \A u \in Threads \ {t} : pc'[u] = pc[u] /\ packet'[u] = packet[u]
        /\ UNCHANGED <<incoming, handle, target>> /\ pc[t] = "check"
    BY <1>0, <1>6 DEF Check, Received, MethodsType, Goto
  <2>2. ChannelOf(packet[t]) = c => Claimable(c)'
    <3>1. CASE c \in channels
      BY <2>1, <3>1 DEF Taken, Claimable, Owned
    <3>2. CASE c \notin channels
      BY <1>0, <1>6, <3>2 DEF Check, Goto, MethodsType, Claimable
    <3>3. QED
      BY <3>1, <3>2
  <2>3. ASSUME NEW u \in Threads,
               \/ pc[u] \in {"check", "announce"} /\ ChannelOf(packet[u]) = c
               \/ pc[u] \in {"claim", "resolve", "unlink"} /\ target[u] = c
        PROVE  Claimable(c)'
    <3>1. CASE u = t
      BY <2>1, <2>2, <2>3, <3>1
    <3>2. CASE u # t
      BY <2>1, <2>3, <3>2 DEF Claimable
    <3>3. QED
      BY <3>1, <3>2
  <2>4. QED
    BY <2>1, <2>3 DEF Claimable, Owned
<1>7. ASSUME NEW t \in Threads, Announce(t) PROVE Claimable(c)'
  <2>1. /\ \A u \in Threads \ {t} : pc'[u] = pc[u] /\ packet'[u] = packet[u]
        /\ UNCHANGED <<handle, target>> /\ pc[t] = "announce"
        /\ incoming' = Append(incoming, ChannelOf(packet[t]))
    BY <1>0, <1>7 DEF Announce, Received, MethodsType, Goto
  <2>2. \A i \in DOMAIN incoming : i \in DOMAIN incoming' /\ incoming'[i] = incoming[i]
    BY <1>0, <2>1 DEF HandlesType
  <2>3. \E i \in DOMAIN incoming' : incoming'[i] = ChannelOf(packet[t])
    <3>1. /\ Len(incoming) + 1 \in DOMAIN incoming'
          /\ incoming'[Len(incoming) + 1] = ChannelOf(packet[t])
      BY <1>0, <2>1 DEF HandlesType
    <3>2. QED
      BY <3>1
  <2>4. ASSUME NEW u \in Threads,
               \/ pc[u] \in {"check", "announce"} /\ ChannelOf(packet[u]) = c
               \/ pc[u] \in {"claim", "resolve", "unlink"} /\ target[u] = c
        PROVE  Claimable(c)'
    <3>1. CASE u = t
      BY <2>1, <2>3, <2>4, <3>1 DEF Claimable
    <3>2. CASE u # t
      BY <2>1, <2>4, <3>2 DEF Claimable
    <3>3. QED
      BY <3>1, <3>2
  <2>5. QED
    BY <2>1, <2>2, <2>4 DEF Claimable, Owned
<1>8. ASSUME NEW t \in Threads, NEW h \in Handles, Drop(t, h) PROVE Claimable(c)'
  <2>1. /\ \A u \in Threads \ {t} : pc'[u] = pc[u] /\ target'[u] = target[u]
        /\ UNCHANGED <<incoming, packet>> /\ pc[t] = "idle"
        /\ pc'[t] = "resolve" /\ target'[t] = handle[h]
        /\ handle' = [handle EXCEPT ![h] = NoChannel]
    BY <1>0, <1>8 DEF Drop, MethodsType, Goto
  <2>2. Owned(c) => Owned(c)' \/ target'[t] = c
    BY <1>0, <2>1 DEF Owned, HandlesType
  <2>3. ASSUME NEW u \in Threads,
               \/ pc[u] \in {"check", "announce"} /\ ChannelOf(packet[u]) = c
               \/ pc[u] \in {"claim", "resolve", "unlink"} /\ target[u] = c
        PROVE  Claimable(c)'
    <3>1. u # t
      BY <2>1, <2>3
    <3>2. QED
      BY <2>1, <2>3, <3>1 DEF Claimable
  <2>4. QED
    BY <2>1, <2>2, <2>3 DEF Claimable
<1>9. ASSUME NEW t \in Threads, Resolve(t) PROVE Claimable(c)'
  <2>1. /\ \A u \in Threads \ {t} : pc'[u] = pc[u]
        /\ UNCHANGED <<incoming, packet, target, handle>> /\ pc[t] = "resolve" /\ pc'[t] = "unlink"
    BY <1>0, <1>9 DEF Resolve, MethodsType, Goto
  <2>2. QED
    BY <2>1 DEF Claimable, Owned
<1>10. ASSUME NEW t \in Threads, Unlink(t), target[t] # c PROVE Claimable(c)'
  <2>1. /\ \A u \in Threads \ {t} : pc'[u] = pc[u]
        /\ UNCHANGED <<incoming, packet, target, handle>> /\ pc[t] = "unlink"
    BY <1>0, <1>10 DEF Unlink, MethodsType, Goto, locals
  <2>2. QED
    BY <1>10, <2>1 DEF Claimable, Owned
<1>11. ASSUME NEW t \in Threads, ConnectionsPanic(t) \/ AllocatePanic(t) \/ LookupPanic(t)
       PROVE  FALSE
  BY <1>11, NoPanicStep
<1>12. CASE UNCHANGED vars
  BY <1>12 DEF Claimable, Owned, vars, locals
<1>13. QED
  BY <1>1, <1>2, <1>3, <1>4, <1>5, <1>6, <1>7, <1>8, <1>9, <1>10, <1>11, <1>12 DEF Next, Step

\* Under serial closing no packet is stranded on a channel nobody will see.
LEMMA ClaimableInvariant ==
    ASSUME SerialClose
    PROVE  Spec => []PacketsClaimable
<1> DEFINE Inv == \A c \in Channel : Queue(c) # <<>> => Claimable(c)
<1>1. Init => Inv
  BY DEF Init, Queue
<1>2. ASSUME TypeInv, TypeInv', SlabOK, SerialInv, Taken, Inv, [Next]_vars PROVE Inv'
  <2>1. SUFFICES ASSUME NEW c \in Channel, Queue(c)' # <<>> PROVE Claimable(c)'
    OBVIOUS
  <2>2. CASE Queue(c) # <<>>
    <3>1. ASSUME NEW t \in Threads, Unlink(t), target[t] = c PROVE FALSE
      BY <2>1, <3>1, UnlinkQueue
    <3>2. QED
      BY <1>2, <2>2, <3>1, ClaimableStable
  <2>3. CASE Queue(c) = <<>>
    <3>1. PICK t \in Threads : Push(t) \/ Pop(t) \/ Unlink(t)
      BY <1>2, <2>1, <2>3, StepQueue
    <3>2. ~ Unlink(t)
      BY <2>1, <2>3, UnlinkQueue
    <3>3. ~ Pop(t)
      BY <1>2, <2>1, <2>3, PopQueue
    <3>4. Push(t) /\ c = ChannelOf(packet[t])
      BY <1>2, <2>1, <2>3, <3>1, <3>2, <3>3, PushQueue
    <3>5. pc'[t] = "check" /\ packet' = packet
      BY <1>2, <3>4 DEF Push, Goto, TypeInv, TypeOK, MethodsType, locals
    <3>6. QED
      BY <3>4, <3>5 DEF Claimable
  <2>4. QED
    BY <2>2, <2>3
<1>3. Inv => PacketsClaimable
  BY DEF PacketsClaimable, Claimable
<1>4. QED
  BY <1>1, <1>2, <1>3, TypeInvariant, SlabInvariant, SerialInvariant, TakenInvariant, PTL DEF Spec

-----------------------------------------------------------------------------
(***************************************************************************)
(* The results.                                                            *)
(***************************************************************************)

\* When nobody drops a DtpChannel, or there is one thread, no unwrap on the slab
\* fails: an id from connection_id is still occupied when it is used.
THEOREM SerialNoPanic ==
    ASSUME SerialClose
    PROVE  Spec => []NoPanic
<1>1. SerialInv => NoPanic
  BY DEF SerialInv, Healthy
<1>2. QED
  BY <1>1, SerialInvariant, PTL

\* Under the same condition the lookup table and the slab agree and no queue is
\* leaked, for any number of threads, channels and datagrams.
THEOREM SerialTables ==
    ASSUME SerialClose
    PROVE  Spec => []TablesAgree
<1>1. SerialInv => TablesAgree
  BY DEF SerialInv
<1>2. QED
  BY <1>1, SerialInvariant, PTL

\* Under the same condition every packet waits on the channel it was sent on,
\* although poll_recv pushes by slab key and keys are reused.
THEOREM SerialRouting ==
    ASSUME SerialClose
    PROVE  Spec => []PacketRouting
BY RoutingInvariant, PTL

\* Under the same condition no packet is stranded: its channel is held, announced,
\* about to be, or being closed.
THEOREM SerialClaimable ==
    ASSUME SerialClose
    PROVE  Spec => []PacketsClaimable
BY ClaimableInvariant, PTL

\* As long as nobody accepts incoming channels, `outgoing` keeps its promise to
\* fail on a channel that was already created - closing and panics included.
THEOREM DialersUnique ==
    ASSUME Acceptors = {}
    PROVE  Spec => []UniqueHandle
<1> DEFINE Inv == UniqueHandle /\ \A h \in Handles : handle[h] # NoChannel => handle[h] \in channels
<1>1. Init => Inv
  BY DEF Init, UniqueHandle
<1>2. ASSUME TypeInv, Inv, [Next]_vars PROVE Inv'
  <2>0. HandlesType /\ LocalsOK
    BY <1>2 DEF TypeInv, TypeOK
  <2>1. ASSUME NEW t \in Threads, NEW ch \in Channel, Outgoing(t, ch) PROVE Inv'
    BY <1>2, <2>0, <2>1, SentinelAssumption DEF UniqueHandle, Outgoing, NewHandle, HandlesType
  <2>2. ASSUME NEW t \in Threads, Claim(t) PROVE Inv'
    <3>1. target[t] \in Channel
      BY <2>0, <2>2 DEF Claim, LocalsOK
    <3>2. QED
      BY <1>2, <2>0, <2>2, <3>1, SentinelAssumption
         DEF UniqueHandle, Claim, NewHandle, HandlesType
  <2>3. ASSUME NEW t \in Threads, NEW h \in Handles, Drop(t, h) PROVE Inv'
    BY <1>2, <2>0, <2>3 DEF UniqueHandle, Drop, HandlesType
  <2>4. ASSUME UNCHANGED <<channels, handle>> PROVE Inv'
    BY <1>2, <2>4 DEF UniqueHandle
  <2>5. ASSUME NEW t \in Threads,
               \/ \E h \in Handles : PollChannel(t, h)
               \/ Take(t) \/ Lookup(t) \/ Pop(t) \/ Recv(t) \/ RecvNothing(t) \/ Route(t)
               \/ Push(t) \/ Check(t) \/ Announce(t) \/ Resolve(t) \/ Unlink(t) \/ Remove(t)
               \/ ConnectionsPanic(t) \/ AllocatePanic(t) \/ LookupPanic(t)
        PROVE  UNCHANGED <<channels, handle>>
    BY <2>5 DEF PollChannel, Take, Lookup, Pop, Recv, RecvNothing, Route, Push, Check, Announce,
                Resolve, Unlink, Remove, ConnectionsPanic, AllocatePanic, LookupPanic, Panic
  <2>6. \A t \in Threads : ~ PollIncoming(t)
    BY DEF PollIncoming
  <2>7. CASE UNCHANGED vars
    BY <2>4, <2>7 DEF vars
  <2>8. QED
    BY <1>2, <2>1, <2>2, <2>3, <2>4, <2>5, <2>6, <2>7 DEF Next, Step
<1>3. QED
  BY <1>1, <1>2, TypeInvariant, PTL DEF Spec

\* What was received or is waiting is older than a datagram still to be pushed.
Below(n) ==
    \A c \in Channel : last[c] <= n /\ \A i \in DOMAIN Queue(c) : Queue(c)[i].id <= n

\* The datagram a thread is still to push is the last one that arrived.
PushedLast ==
    /\ Below(arrived)
    /\ \A t \in Threads : pc[t] \in {"route", "push"} =>
           packet[t].id = arrived /\ Below(arrived - 1)

\* On one thread recv returns the packets of a channel in arrival order and none
\* of them twice, across close and reopen too.
THEOREM SerialOrder ==
    ASSUME \A t, u \in Threads : t = u
    PROVE  Spec => []ArrivalOrder
<1> DEFINE Inv == ArrivalOrder /\ PushedLast
<1>0. SerialClose
  BY DEF SerialClose
<1>1. Init => Inv
  BY SocketAssumption DEF Init, ArrivalOrder, PushedLast, Below, Queue
<1>2. ASSUME TypeInv, TypeInv', SlabOK, SerialInv, Inv, [Next]_vars PROVE Inv'
  <2>0. /\ TypeOK /\ HandlesType /\ MethodsType /\ LocalsOK
        /\ arrived \in Nat /\ \A c \in Channel : last[c] \in Nat
    BY <1>2 DEF TypeInv, TypeOK, HandlesType
  <2>q. \A c \in Channel : /\ Queue(c) \in Seq(Packet)
                           /\ \A i \in DOMAIN Queue(c) : i \in Nat /\ Queue(c)[i].id \in Nat
    <3>1. \A c \in Channel : Queue(c) \in Seq(Packet)
      BY <2>0, QueueType
    <3>2. \A c \in Channel : \A i \in DOMAIN Queue(c) : i \in Nat /\ Queue(c)[i] \in Packet
      BY <3>1
    <3>3. \A p \in Packet : p.id \in Nat
      BY DEF Packet
    <3>4. QED
      BY <3>1, <3>2, <3>3
  <2>1. ASSUME \A c \in Channel : Queue(c)' = Queue(c), UNCHANGED <<arrived, last>>,
               \A u \in Threads : pc'[u] \in {"route", "push"} =>
                   pc[u] \in {"route", "push"} /\ packet'[u] = packet[u]
        PROVE  Inv'
    <3>1. ArrivalOrder'
      BY <1>2, <2>1 DEF ArrivalOrder
    <3>2. Below(arrived)' /\ (Below(arrived - 1) => Below(arrived - 1)')
      BY <1>2, <2>1 DEF PushedLast, Below
    <3>3. PushedLast'
      BY <1>2, <2>1, <3>2 DEF PushedLast
    <3>4. QED
      BY <3>1, <3>3
  <2>2. ASSUME NEW t \in Threads, Recv(t) PROVE Inv'
    <3>1. \A c : Queue(c)' = Queue(c)
      BY <2>2 DEF Recv, Queue, slab
    <3>2. arrived' = arrived + 1 /\ last' = last /\ packet'[t].id = arrived + 1
      BY <2>0, <2>2 DEF Recv, MethodsType
    <3>3. ArrivalOrder'
      BY <1>2, <3>1, <3>2 DEF ArrivalOrder
    <3>4. Below(arrived)' /\ Below(arrived - 1)'
      <4>1. Below(arrived)
        BY <1>2 DEF PushedLast
      <4>2. \A c \in Channel : \A i \in DOMAIN Queue(c)' :
               Queue(c)'[i].id \in Nat /\ Queue(c)'[i].id <= arrived
        BY <2>q, <3>1, <4>1 DEF Below
      <4>3. QED
        BY <2>0, <3>2, <4>1, <4>2 DEF Below
    <3>5. QED
      BY <2>0, <3>2, <3>3, <3>4 DEF PushedLast
  <2>3. ASSUME NEW t \in Threads, Push(t) PROVE Inv'
    <3>1. packet[t].id = arrived /\ Below(arrived - 1)
      BY <1>2, <2>3 DEF Push, PushedLast
    <3>2. UNCHANGED <<arrived, last>> /\ pc'[t] = "check"
      BY <2>0, <2>3 DEF Push, Goto, MethodsType
    <3>3. \A c : Queue(c)' = IF c = ChannelOf(packet[t]) THEN Append(Queue(c), packet[t])
                                                         ELSE Queue(c)
      BY <1>2, <2>3, PushQueue
    <3>4. ASSUME NEW c \in Channel
          PROVE  /\ \A i, j \in DOMAIN Queue(c)' :
                        i < j => Queue(c)'[i].id < Queue(c)'[j].id
                 /\ \A i \in DOMAIN Queue(c)' : last[c] < Queue(c)'[i].id
                 /\ \A i \in DOMAIN Queue(c)' : Queue(c)'[i].id <= arrived
      <4>1. /\ \A i, j \in DOMAIN Queue(c) : i < j => Queue(c)[i].id < Queue(c)[j].id
            /\ \A i \in DOMAIN Queue(c) : last[c] < Queue(c)[i].id
            /\ \A i \in DOMAIN Queue(c) : Queue(c)[i].id <= arrived
            /\ \A i \in DOMAIN Queue(c) : Queue(c)[i].id < arrived
            /\ last[c] < arrived
        BY <1>2, <2>0, <2>q, <3>1 DEF ArrivalOrder, Below, PushedLast
      <4>2. CASE Queue(c)' = Queue(c)
        BY <4>1, <4>2
      <4>3. CASE Queue(c)' = Append(Queue(c), packet[t])
        <5>1. /\ DOMAIN Queue(c)' = 1..(Len(Queue(c)) + 1) /\ DOMAIN Queue(c) = 1..Len(Queue(c))
              /\ Len(Queue(c)) \in Nat
              /\ Queue(c)'[Len(Queue(c)) + 1] = packet[t]
              /\ \A i \in DOMAIN Queue(c) : Queue(c)'[i] = Queue(c)[i]
          BY <2>q, <4>3
        <5>2. \A i \in DOMAIN Queue(c)' : i = Len(Queue(c)) + 1 \/ i \in DOMAIN Queue(c)
          BY <5>1
        <5>3. QED
          BY <2>0, <2>q, <3>1, <4>1, <5>1, <5>2
      <4>4. QED
        BY <3>3, <4>2, <4>3
    <3>5. ArrivalOrder'
      BY <3>2, <3>4 DEF ArrivalOrder
    <3>6. Below(arrived)'
      BY <1>2, <3>2, <3>4 DEF Below, PushedLast
    <3>7. PushedLast'
      BY <3>2, <3>6 DEF PushedLast
    <3>8. QED
      BY <3>5, <3>7
  <2>4. ASSUME NEW t \in Threads, Pop(t) PROVE Inv'
    <3>1. CASE Queue(target[t]) = <<>>
      <4>1. \A c : Queue(c)' = Queue(c)
        BY <1>2, <2>4, <3>1, PopQueue
      <4>2. UNCHANGED <<arrived, last>> /\ pc'[t] = "recv"
        <5>1. connections[conn_id[t]] = <<>>
          BY <1>2, <2>4, <3>1, PopQueue
        <5>2. QED
          BY <2>0, <2>4, <5>1 DEF Pop, Goto, MethodsType
      <4>3. QED
        BY <2>1, <4>1, <4>2
    <3>2. CASE Queue(target[t]) # <<>>
      <4>0. target[t] \in Channel
        BY <2>0, <2>4 DEF Pop, LocalsOK
      <4>1. \A c : Queue(c)' = IF c = target[t] THEN Tail(Queue(c)) ELSE Queue(c)
        BY <1>2, <2>4, <3>2, PopQueue
      <4>2. /\ last' = [last EXCEPT ![target[t]] = Head(Queue(target[t])).id]
            /\ arrived' = arrived /\ pc'[t] = "idle"
        <5>1. Queue(target[t]) = connections[conn_id[t]]
          BY <1>2, <2>4, PopQueue
        <5>2. QED
          BY <2>0, <2>4, <3>2, <5>1 DEF Pop, Return, Goto, MethodsType
      <4>3. ASSUME NEW c \in Channel
            PROVE  /\ \A i, j \in DOMAIN Queue(c)' :
                          i < j => Queue(c)'[i].id < Queue(c)'[j].id
                   /\ \A i \in DOMAIN Queue(c)' : last'[c] < Queue(c)'[i].id
                   /\ \A i \in DOMAIN Queue(c)' : Queue(c)'[i].id <= arrived
                   /\ last'[c] <= arrived
        <5>1. /\ \A i, j \in DOMAIN Queue(c) : i < j => Queue(c)[i].id < Queue(c)[j].id
              /\ \A i \in DOMAIN Queue(c) : last[c] < Queue(c)[i].id
              /\ \A i \in DOMAIN Queue(c) : Queue(c)[i].id <= arrived
              /\ last[c] <= arrived
          BY <1>2 DEF ArrivalOrder, Below, PushedLast
        <5>2. CASE c # target[t]
          <6>1. Queue(c)' = Queue(c) /\ last'[c] = last[c]
            BY <2>0, <4>1, <4>2, <5>2 DEF HandlesType
          <6>2. QED
            BY <5>1, <6>1
        <5>3. CASE c = target[t]
          <6>1. Queue(c)' = Tail(Queue(c)) /\ last'[c] = Head(Queue(c)).id
            BY <2>0, <4>1, <4>2, <5>3 DEF HandlesType
          <6>2. /\ 1 \in DOMAIN Queue(c) /\ Head(Queue(c)) = Queue(c)[1]
                /\ \A i \in DOMAIN Queue(c)' : /\ i \in Nat /\ 1 < i + 1
                                               /\ i + 1 \in DOMAIN Queue(c)
                                               /\ Queue(c)'[i] = Queue(c)[i + 1]
            BY <2>q, <3>2, <5>3, <6>1
          <6>3. \A i, j \in DOMAIN Queue(c)' : i < j => i + 1 < j + 1
            BY <6>2
          <6>4. \A i, j \in DOMAIN Queue(c)' : i < j => Queue(c)'[i].id < Queue(c)'[j].id
            BY <5>1, <6>2, <6>3
          <6>5. QED
            BY <5>1, <6>1, <6>2, <6>4
        <5>4. QED
          BY <5>2, <5>3
      <4>4. ArrivalOrder'
        BY <4>3 DEF ArrivalOrder
      <4>5. Below(arrived)'
        BY <4>2, <4>3 DEF Below
      <4>6. PushedLast'
        BY <4>2, <4>5 DEF PushedLast
      <4>7. QED
        BY <4>4, <4>6
    <3>3. QED
      BY <3>1, <3>2
  <2>5. ASSUME NEW t \in Threads, Unlink(t) PROVE Inv'
    <3>1. UNCHANGED <<arrived, last>> /\ pc'[t] = "remove"
      BY <2>0, <2>5 DEF Unlink, Goto, MethodsType
    <3>2. \A c : Queue(c)' = IF c = target[t] THEN <<>> ELSE Queue(c)
      BY <2>5, UnlinkQueue
    <3>3. ArrivalOrder'
      BY <1>2, <3>1, <3>2 DEF ArrivalOrder
    <3>4. Below(arrived)'
      BY <1>2, <3>1, <3>2 DEF PushedLast, Below
    <3>5. PushedLast'
      BY <3>1, <3>4 DEF PushedLast
    <3>6. QED
      BY <3>3, <3>5
  <2>6. ASSUME NEW t \in Threads,
               \/ \E ch \in Channel : Outgoing(t, ch)
               \/ \E h \in Handles : PollChannel(t, h) \/ Drop(t, h)
               \/ PollIncoming(t) \/ Take(t) \/ Claim(t) \/ Lookup(t) \/ RecvNothing(t)
               \/ Route(t) \/ Check(t) \/ Announce(t) \/ Resolve(t) \/ Remove(t)
        PROVE  Inv'
    <3>1. /\ UNCHANGED <<arrived, last>>
          /\ ~ (\E u \in Threads : Push(u) \/ Pop(u) \/ Unlink(u))
      BY <2>6 DEF Outgoing, PollChannel, Drop, PollIncoming, Take, Claim, Lookup, RecvNothing,
                  Route, Check, Announce, Resolve, Remove, Push, Pop, Unlink
    <3>2. \A c : Queue(c)' = Queue(c)
      BY <1>2, <3>1, StepQueue
    <3>3. \A u \in Threads : pc'[u] \in {"route", "push"} =>
             pc[u] \in {"route", "push"} /\ packet'[u] = packet[u]
      BY <2>0, <2>6 DEF Outgoing, PollChannel, Drop, PollIncoming, Take, Claim, Lookup, RecvNothing,
                        Route, Check, Received, AfterRecv, Announce, Resolve, Remove, Return, Goto,
                        MethodsType, locals
    <3>4. QED
      BY <2>1, <3>1, <3>2, <3>3
  <2>7. CASE UNCHANGED vars
    <3>1. \A c : Queue(c)' = Queue(c)
      BY <2>7 DEF vars, slab, Queue
    <3>2. QED
      BY <2>1, <2>7, <3>1 DEF vars, locals
  <2>8. QED
    BY <1>2, <2>2, <2>3, <2>4, <2>5, <2>6, <2>7, NoPanicStep DEF Next, Step
<1>3. QED
  BY <1>0, <1>1, <1>2, TypeInvariant, SlabInvariant, SerialInvariant, PTL DEF Spec

================================================================================
