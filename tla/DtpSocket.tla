------------------------------- MODULE DtpSocket -------------------------------
(***************************************************************************)
(* The channel multiplexer of a DTP socket: InnerDtpSocket in              *)
(* dtp/src/dtp.rs and the handles that dtp/src/lib.rs puts around it.      *)
(*                                                                         *)
(* One Arc<InnerDtpSocket> is shared by every DtpChannel and by the        *)
(* Incoming stream, and the executor polls them from several threads.  Its *)
(* state sits behind three mutexes and a lock-free queue, and every method *)
(* takes and releases a lock several times.  One action is one critical    *)
(* section, so TLC interleaves the threads exactly where the code lets     *)
(* them interleave.  connection_id takes channel_lookup and, nested in it, *)
(* connections: nothing else nests, so it is one atomic step.              *)
(***************************************************************************)
EXTENDS Integers, Sequences

CONSTANTS
    Threads,        \* executor threads that call into the socket
    Acceptors,      \* the threads that poll the Incoming stream
    Closers,        \* the threads that drop DtpChannels
    Peers,          \* remote socket addresses
    ChanIds,        \* channel ids (u8) in use
    Handles,        \* identities of DtpChannel values (bounds how many live at once)
    MaxDatagrams,   \* bound on the datagrams the OS hands over
    NoChannel, NoHandle, NoPacket

\* A socket has users; the sentinels are not values of the types they stand in for.
ASSUME SocketAssumption ==
    /\ Acceptors \subseteq Threads
    /\ Closers \subseteq Threads
    /\ MaxDatagrams \in Nat
    /\ NoHandle \notin Handles

\* struct Channel: the key a datagram is demultiplexed by.
Channel == [peer_addr: Peers, channel_id: ChanIds]

\* A received DtpPacket: where it came from, its first byte, and an identity
\* (its arrival number) in place of the payload.
Packet == [from: Peers, channel_id: ChanIds, id: 1..MaxDatagrams]

ASSUME SentinelAssumption == NoChannel \notin Channel /\ NoPacket \notin Packet

VARIABLES
    channel_lookup, \* Mutex<HashMap<Channel, usize>>
    connections,    \* Mutex<Slab<SegQueue<DtpPacket>>>: the occupied entries
    slots,          \* the slab's entries.len()
    vacant,         \* the slab's free list, last freed key first
    channels,       \* Mutex<HashSet<Channel>>: the channels taken by a handle
    incoming,       \* SegQueue<Channel>: channels announced to the Incoming stream
    poisoned,       \* the mutexes a panic has poisoned
    handle,         \* the channel of each live DtpChannel
    pc,             \* where each thread is inside the socket
    borrowed,       \* local: the DtpChannel a thread is polling
    target,         \* local: the channel argument of poll_channel, close and the claim
    packet,         \* local: the datagram poll_recv holds
    conn_id,        \* local: the slab key returned by connection_id
    arrived,        \* datagrams read from the OS so far
    last            \* history: id of the last packet recv returned on each channel

slab   == <<connections, slots, vacant>>
locals == <<borrowed, target, packet, conn_id>>
vars   == <<channel_lookup, slab, channels, incoming, poisoned, handle, pc, locals,
            arrived, last>>

PcSet == {"idle", "recv", "route", "push", "check", "announce", "take", "claim",
          "lookup", "pop", "resolve", "unlink", "remove", "panicked"}

(***************************************************************************)
(* The type invariant: of the tables, of the queue of announcements and    *)
(* the handles, and of the locals of the methods in progress.              *)
(***************************************************************************)
TablesType ==
    /\ DOMAIN channel_lookup \subseteq Channel
    /\ channel_lookup \in [DOMAIN channel_lookup -> Nat]
    /\ DOMAIN connections \subseteq Nat
    /\ connections \in [DOMAIN connections -> Seq(Packet)]
    /\ slots \in Nat
    /\ vacant \in Seq(Nat)

HandlesType ==
    /\ channels \subseteq Channel
    /\ incoming \in Seq(Channel)
    /\ poisoned \subseteq {"channel_lookup", "connections"}
    /\ handle \in [Handles -> Channel \cup {NoChannel}]
    /\ arrived \in 0..MaxDatagrams
    /\ last \in [Channel -> 0..MaxDatagrams]

MethodsType ==
    /\ pc \in [Threads -> PcSet]
    /\ borrowed \in [Threads -> Handles \cup {NoHandle}]
    /\ target \in [Threads -> Channel \cup {NoChannel}]
    /\ packet \in [Threads -> Packet \cup {NoPacket}]
    /\ conn_id \in [Threads -> Nat]

TypeOK == TablesType /\ HandlesType /\ MethodsType

-----------------------------------------------------------------------------
(***************************************************************************)
(* Helpers.                                                                *)
(***************************************************************************)

\* HashMap::insert / Slab::insert and their remove, as updates of a partial function.
Put(f, x, v) == [y \in DOMAIN f \cup {x} |-> IF y = x THEN v ELSE f[y]]
Del(f, x)    == [y \in DOMAIN f \ {x} |-> f[y]]

\* The key Slab::insert uses: the last one freed, else a new slot at the end.
SlabKey == IF vacant = <<>> THEN slots ELSE Head(vacant)

SlabInsert ==
    /\ connections' = Put(connections, SlabKey, <<>>)
    /\ slots'  = IF vacant = <<>> THEN slots + 1 ELSE slots
    /\ vacant' = IF vacant = <<>> THEN vacant ELSE Tail(vacant)

SlabRemove(k) ==
    /\ connections' = Del(connections, k)
    /\ vacant' = <<k>> \o vacant
    /\ UNCHANGED slots

\* The channel poll_recv builds from the sender's address and the first byte.
ChannelOf(p) == [peer_addr |-> p.from, channel_id |-> p.channel_id]

Goto(t, l) == pc' = [pc EXCEPT ![t] = l]

\* A method returns: its locals, and the borrow of the handle, go out of scope.
Return(t) ==
    /\ Goto(t, "idle")
    /\ borrowed' = [borrowed EXCEPT ![t] = NoHandle]
    /\ target'   = [target EXCEPT ![t] = NoChannel]
    /\ packet'   = [packet EXCEPT ![t] = NoPacket]
    /\ conn_id'  = [conn_id EXCEPT ![t] = 0]

\* A DtpChannel value is built around channel ch.
NewHandle(ch) ==
    \E h \in Handles : /\ handle[h] = NoChannel
                       /\ handle' = [handle EXCEPT ![h] = ch]

\* Faulty variant: `or_insert(insert(..))` for `or_insert_with`: a queue is
\* allocated for a known channel as well.
ConnectionIdEager(t, ch) ==
    LET known == ch \in DOMAIN channel_lookup
        key == IF known THEN channel_lookup[ch] ELSE SlabKey IN
    /\ poisoned = {}
    /\ conn_id' = [conn_id EXCEPT ![t] = key]
    /\ channel_lookup' = Put(channel_lookup, ch, key)
    /\ SlabInsert

\* Faulty variant: the key is the length of the slab less one, before the insert.
ConnectionIdBefore(t, ch) ==
    LET key == IF ch \in DOMAIN channel_lookup THEN channel_lookup[ch] ELSE slots - 1 IN
    /\ poisoned = {}
    /\ conn_id' = [conn_id EXCEPT ![t] = key]
    /\ channel_lookup' = Put(channel_lookup, ch, key)
    /\ IF ch \in DOMAIN channel_lookup THEN UNCHANGED slab ELSE SlabInsert

\* connection_id(ch): the slab key of ch, allocating a queue on first sight.
ConnectionId(t, ch) ==
    /\ "channel_lookup" \notin poisoned
    /\ \/ /\ ch \in DOMAIN channel_lookup
          /\ conn_id' = [conn_id EXCEPT ![t] = channel_lookup[ch]]
          /\ UNCHANGED <<channel_lookup, slab>>
       \/ /\ ch \notin DOMAIN channel_lookup
          /\ "connections" \notin poisoned
          /\ conn_id' = [conn_id EXCEPT ![t] = SlabKey]
          /\ channel_lookup' = Put(channel_lookup, ch, SlabKey)
          /\ SlabInsert

-----------------------------------------------------------------------------
\* Faulty variant: the channel is taken without asking whether it is free.
OutgoingUnchecked(t, ch) ==
    /\ pc[t] = "idle"
    /\ channels' = channels \cup {ch}
    /\ NewHandle(ch)
    /\ UNCHANGED <<channel_lookup, slab, incoming, poisoned, pc, locals, arrived, last>>

(***************************************************************************)
(* outgoing: taking a channel, one critical section of `channels`.         *)
(***************************************************************************)
Outgoing(t, ch) ==
    /\ pc[t] = "idle"
    /\ ch \notin channels            \* else Err("channel already taken")
    /\ channels' = channels \cup {ch}
    /\ NewHandle(ch)
    /\ UNCHANGED <<channel_lookup, slab, incoming, poisoned, pc, locals, arrived, last>>

(***************************************************************************)
(* poll_incoming.  The queue is tried first, and what it holds is returned *)
(* as it is; otherwise the socket is polled and the popped channel is      *)
(* claimed under the lock of `channels`.                                   *)
(***************************************************************************)
PollIncoming(t) ==
    /\ t \in Acceptors
    /\ pc[t] = "idle"
    /\ \/ /\ incoming # <<>>
          /\ incoming' = Tail(incoming)
          /\ NewHandle(Head(incoming))
          /\ UNCHANGED pc
       \/ /\ incoming = <<>>
          /\ Goto(t, "recv")
          /\ UNCHANGED <<incoming, handle>>
    /\ UNCHANGED <<channel_lookup, slab, channels, poisoned, locals, arrived, last>>

Take(t) ==
    /\ pc[t] = "take"
    /\ \/ /\ incoming # <<>>
          /\ target' = [target EXCEPT ![t] = Head(incoming)]
          /\ incoming' = Tail(incoming)
          /\ Goto(t, "claim")
       \/ /\ incoming = <<>>
          /\ Goto(t, "recv")
          /\ UNCHANGED <<incoming, target>>
    /\ UNCHANGED <<channel_lookup, slab, channels, poisoned, handle, borrowed, packet,
                   conn_id, arrived, last>>

Claim(t) ==
    /\ pc[t] = "claim"
    /\ \/ /\ target[t] \notin channels
          /\ channels' = channels \cup {target[t]}
          /\ NewHandle(target[t])
          /\ Return(t)
       \/ /\ target[t] \in channels
          /\ Goto(t, "recv")
          /\ target' = [target EXCEPT ![t] = NoChannel]
          /\ UNCHANGED <<channels, handle, borrowed, packet, conn_id>>
    /\ UNCHANGED <<channel_lookup, slab, incoming, poisoned, arrived, last>>

(***************************************************************************)
(* poll_channel: pop the channel's queue, else poll the socket and retry.  *)
(***************************************************************************)
PollChannel(t, h) ==
    /\ pc[t] = "idle"
    /\ handle[h] # NoChannel
    /\ Goto(t, "lookup")
    /\ borrowed' = [borrowed EXCEPT ![t] = h]
    /\ target'   = [target EXCEPT ![t] = handle[h]]
    /\ UNCHANGED <<channel_lookup, slab, channels, incoming, poisoned, handle, packet,
                   conn_id, arrived, last>>

Lookup(t) ==
    /\ pc[t] = "lookup"
    /\ ConnectionId(t, target[t])
    /\ Goto(t, "pop")
    /\ UNCHANGED <<channels, incoming, poisoned, handle, borrowed, target, packet,
                   arrived, last>>

\* The queue the id names, when the two unwraps of a lookup by id succeed.
Usable(t) == "connections" \notin poisoned /\ conn_id[t] \in DOMAIN connections

\* Faulty variant: a queue is freed as soon as its last packet is taken.
PopFrees(t) ==
    /\ pc[t] = "pop"
    /\ Usable(t)
    /\ LET queue == connections[conn_id[t]] IN
       \/ /\ Len(queue) = 1
          /\ channel_lookup' = Del(channel_lookup, target[t])
          /\ SlabRemove(conn_id[t])
          /\ Return(t)
       \/ /\ Len(queue) # 1
          /\ Goto(t, "recv")
          /\ UNCHANGED <<channel_lookup, slab, locals>>
    /\ UNCHANGED <<channels, incoming, poisoned, handle, arrived, last>>

Pop(t) ==
    /\ pc[t] = "pop"
    /\ Usable(t)
    /\ LET queue == connections[conn_id[t]] IN
       \/ /\ queue # <<>>
          /\ connections' = [connections EXCEPT ![conn_id[t]] = Tail(queue)]
          /\ last' = [last EXCEPT ![target[t]] = Head(queue).id]
          /\ Return(t)
       \/ /\ queue = <<>>
          /\ Goto(t, "recv")
          /\ UNCHANGED <<connections, locals, last>>
    /\ UNCHANGED <<channel_lookup, slots, vacant, channels, incoming, poisoned, handle,
                   arrived>>

(***************************************************************************)
(* poll_recv: one datagram is read and routed to the queue of its channel; *)
(* a channel nobody has taken is announced on `incoming`.                  *)
(***************************************************************************)
Recv(t) ==
    /\ pc[t] = "recv"
    /\ arrived < MaxDatagrams
    /\ arrived' = arrived + 1
    /\ \E p \in Peers, c \in ChanIds :
          packet' = [packet EXCEPT ![t] = [from |-> p, channel_id |-> c, id |-> arrived + 1]]
    /\ Goto(t, "route")
    /\ UNCHANGED <<channel_lookup, slab, channels, incoming, poisoned, handle, borrowed,
                   target, conn_id, last>>

\* WouldBlock (Poll::Pending), an I/O error, or a datagram too short for
\* packet.check: the poll returns, the tables are as they were.
RecvNothing(t) ==
    /\ pc[t] = "recv"
    /\ Return(t)
    /\ UNCHANGED <<channel_lookup, slab, channels, incoming, poisoned, handle, arrived, last>>

\* Faulty variant: the datagram is routed by its channel id alone.
RouteByChannelId(t) ==
    /\ pc[t] = "route"
    /\ ConnectionId(t, CHOOSE ch \in Channel : ch.channel_id = packet[t].channel_id)
    /\ Goto(t, "push")
    /\ UNCHANGED <<channels, incoming, poisoned, handle, borrowed, target, packet,
                   arrived, last>>

Route(t) ==
    /\ pc[t] = "route"
    /\ ConnectionId(t, ChannelOf(packet[t]))
    /\ Goto(t, "push")
    /\ UNCHANGED <<channels, incoming, poisoned, handle, borrowed, target, packet,
                   arrived, last>>

\* Faulty variant: the queue is a stack.
PushFirst(t) ==
    /\ pc[t] = "push"
    /\ Usable(t)
    /\ connections' = [connections EXCEPT ![conn_id[t]] = <<packet[t]>> \o @]
    /\ Goto(t, "check")
    /\ UNCHANGED <<channel_lookup, slots, vacant, channels, incoming, poisoned, handle,
                   locals, arrived, last>>

\* Faulty variant: the queue holds one packet, and drops what does not fit.
PushBounded(t) ==
    /\ pc[t] = "push"
    /\ Usable(t)
    /\ connections' = [connections EXCEPT
                          ![conn_id[t]] = IF @ = <<>> THEN <<packet[t]>> ELSE @]
    /\ Goto(t, "check")
    /\ UNCHANGED <<channel_lookup, slots, vacant, channels, incoming, poisoned, handle,
                   locals, arrived, last>>

Push(t) ==
    /\ pc[t] = "push"
    /\ Usable(t)
    /\ connections' = [connections EXCEPT ![conn_id[t]] = Append(@, packet[t])]
    /\ Goto(t, "check")
    /\ UNCHANGED <<channel_lookup, slots, vacant, channels, incoming, poisoned, handle,
                   locals, arrived, last>>

\* Where the caller's loop goes on once poll_recv is Ready(Ok(())).
AfterRecv(t) == IF borrowed[t] = NoHandle THEN "take" ELSE "lookup"

\* poll_recv is over: the datagram and its slab key go out of scope.
Received(t) ==
    /\ Goto(t, AfterRecv(t))
    /\ packet'  = [packet EXCEPT ![t] = NoPacket]
    /\ conn_id' = [conn_id EXCEPT ![t] = 0]

\* Faulty variant: a channel is announced for the packet that is alone in its queue.
CheckFirst(t) ==
    /\ pc[t] = "check"
    /\ LET first == Usable(t) /\ Len(connections[conn_id[t]]) = 1 IN
       \/ /\ ChannelOf(packet[t]) \notin channels /\ first
          /\ Goto(t, "announce")
          /\ UNCHANGED <<packet, conn_id>>
       \/ /\ ChannelOf(packet[t]) \in channels \/ ~ first
          /\ Received(t)
    /\ UNCHANGED <<channel_lookup, slab, channels, incoming, poisoned, handle, borrowed,
                   target, arrived, last>>

Check(t) ==
    /\ pc[t] = "check"
    /\ \/ /\ ChannelOf(packet[t]) \notin channels
          /\ Goto(t, "announce")
          /\ UNCHANGED <<packet, conn_id>>
       \/ /\ ChannelOf(packet[t]) \in channels
          /\ Received(t)
    /\ UNCHANGED <<channel_lookup, slab, channels, incoming, poisoned, handle, borrowed,
                   target, arrived, last>>

Announce(t) ==
    /\ pc[t] = "announce"
    /\ incoming' = Append(incoming, ChannelOf(packet[t]))
    /\ Received(t)
    /\ UNCHANGED <<channel_lookup, slab, channels, poisoned, handle, borrowed, target,
                   arrived, last>>

(***************************************************************************)
(* close, run by Drop for DtpChannel: no borrow of the handle is left.     *)
(***************************************************************************)
\* Faulty variant: the channel stays taken.
DropKeepsChannel(t, h) ==
    /\ t \in Closers
    /\ pc[t] = "idle"
    /\ handle[h] # NoChannel
    /\ \A u \in Threads : borrowed[u] # h
    /\ handle' = [handle EXCEPT ![h] = NoChannel]
    /\ target' = [target EXCEPT ![t] = handle[h]]
    /\ Goto(t, "resolve")
    /\ UNCHANGED <<channel_lookup, slab, channels, incoming, poisoned, borrowed, packet,
                   conn_id, arrived, last>>

Drop(t, h) ==
    /\ t \in Closers
    /\ pc[t] = "idle"
    /\ handle[h] # NoChannel
    /\ \A u \in Threads : borrowed[u] # h
    /\ handle' = [handle EXCEPT ![h] = NoChannel]
    /\ channels' = channels \ {handle[h]}
    /\ target' = [target EXCEPT ![t] = handle[h]]
    /\ Goto(t, "resolve")
    /\ UNCHANGED <<channel_lookup, slab, incoming, poisoned, borrowed, packet, conn_id,
                   arrived, last>>

Resolve(t) ==
    /\ pc[t] = "resolve"
    /\ ConnectionId(t, target[t])
    /\ Goto(t, "unlink")
    /\ UNCHANGED <<channels, incoming, poisoned, handle, borrowed, target, packet,
                   arrived, last>>

\* Faulty variant: only the slab entry is removed.
UnlinkForgotten(t) ==
    /\ pc[t] = "unlink"
    /\ Goto(t, "remove")
    /\ UNCHANGED <<channel_lookup, slab, channels, incoming, poisoned, handle, locals,
                   arrived, last>>

Unlink(t) ==
    /\ pc[t] = "unlink"
    /\ "channel_lookup" \notin poisoned
    /\ channel_lookup' = Del(channel_lookup, target[t])
    /\ Goto(t, "remove")
    /\ UNCHANGED <<slab, channels, incoming, poisoned, handle, locals, arrived, last>>

Remove(t) ==
    /\ pc[t] = "remove"
    /\ Usable(t)
    /\ SlabRemove(conn_id[t])
    /\ Return(t)
    /\ UNCHANGED <<channel_lookup, channels, incoming, poisoned, handle, arrived, last>>

(***************************************************************************)
(* Panics.  A panic under a lock poisons its mutex, and from then on every *)
(* lock().unwrap() on that mutex panics too.  The thread is gone.          *)
(***************************************************************************)
Panic(t, mutexes) ==
    /\ poisoned' = poisoned \cup mutexes
    /\ pc' = [pc EXCEPT ![t] = "panicked"]
    /\ borrowed' = [borrowed EXCEPT ![t] = NoHandle]
    /\ target'   = [target EXCEPT ![t] = NoChannel]
    /\ packet'   = [packet EXCEPT ![t] = NoPacket]
    /\ conn_id'  = [conn_id EXCEPT ![t] = 0]
    /\ UNCHANGED <<channel_lookup, slab, channels, incoming, handle, arrived, last>>

\* get_mut(id).unwrap(), get(id).unwrap() or Slab::remove(id) on an id that is
\* no longer occupied, or the lock of connections is poisoned.
ConnectionsPanic(t) ==
    /\ pc[t] \in {"push", "pop", "remove"}
    /\ ~ Usable(t)
    /\ Panic(t, {"connections"})

\* connection_id allocates while connections is poisoned: channel_lookup is
\* locked at that point and is poisoned as well.
AllocatePanic(t) ==
    /\ \/ pc[t] = "route" /\ ChannelOf(packet[t]) \notin DOMAIN channel_lookup
       \/ pc[t] \in {"lookup", "resolve"} /\ target[t] \notin DOMAIN channel_lookup
    /\ "connections" \in poisoned
    /\ Panic(t, {"channel_lookup"})

LookupPanic(t) ==
    /\ pc[t] \in {"route", "lookup", "resolve", "unlink"}
    /\ "channel_lookup" \in poisoned
    /\ Panic(t, {"channel_lookup"})

-----------------------------------------------------------------------------
Init ==
    /\ channel_lookup = [c \in {} |-> 0]
    /\ connections = [k \in {} |-> <<>>]
    /\ slots = 0
    /\ vacant = <<>>
    /\ channels = {}
    /\ incoming = <<>>
    /\ poisoned = {}
    /\ handle = [h \in Handles |-> NoChannel]
    /\ pc = [t \in Threads |-> "idle"]
    /\ borrowed = [t \in Threads |-> NoHandle]
    /\ target = [t \in Threads |-> NoChannel]
    /\ packet = [t \in Threads |-> NoPacket]
    /\ conn_id = [t \in Threads |-> 0]
    /\ arrived = 0
    /\ last = [c \in Channel |-> 0]

\* A method in progress goes on.
Step(t) ==
    \/ Take(t) \/ Claim(t)
    \/ Lookup(t) \/ Pop(t)
    \/ Recv(t) \/ RecvNothing(t) \/ Route(t) \/ Push(t) \/ Check(t) \/ Announce(t)
    \/ Resolve(t) \/ Unlink(t) \/ Remove(t)
    \/ ConnectionsPanic(t) \/ AllocatePanic(t) \/ LookupPanic(t)

Next ==
    \E t \in Threads :
        \/ \E ch \in Channel : Outgoing(t, ch)
        \/ PollIncoming(t)
        \/ \E h \in Handles : PollChannel(t, h) \/ Drop(t, h)
        \/ Step(t)

Spec == Init /\ [][Next]_vars

(***************************************************************************)
(* Fairness.  A poll that has begun runs on: nothing in it blocks for ever *)
(* on a mutex.  The Incoming stream is polled again and again: a poll that *)
(* finds nothing wakes its own task at once (udp.rs) and the executor's    *)
(* run queue is first in, first out.                                       *)
(***************************************************************************)
Fairness ==
    \A t \in Threads : WF_vars(Step(t)) /\ SF_vars(PollIncoming(t))

FairSpec == Spec /\ Fairness

-----------------------------------------------------------------------------
(***************************************************************************)
(* Properties.                                                             *)
(***************************************************************************)

\* The packets waiting on channel ch.
Queue(ch) ==
    IF ch \in DOMAIN channel_lookup /\ channel_lookup[ch] \in DOMAIN connections
    THEN connections[channel_lookup[ch]]
    ELSE <<>>

Owned(ch) == \E h \in Handles : handle[h] = ch

\* The unwraps on the slab never fail: an id obtained from connection_id still
\* names an occupied entry when poll_recv, poll_channel or close uses it after
\* the lock was released in between.
NoPanic == \A t \in Threads : pc[t] # "panicked"

\* Demultiplexing: whatever waits on a channel was sent by that channel's peer
\* with that channel's id, although slab keys are reused and poll_recv pushes by
\* key, not by channel.
PacketRouting ==
    \A ch \in DOMAIN channel_lookup : \A i \in DOMAIN Queue(ch) :
        ChannelOf(Queue(ch)[i]) = ch

\* The lookup table and the slab agree: two channels never share a queue, no
\* entry dangles, and no queue is leaked - an unreachable one is about to be
\* removed by the close that unlinked it.
TablesAgree ==
    /\ \A c, d \in DOMAIN channel_lookup :
           channel_lookup[c] = channel_lookup[d] => c = d
    /\ \A c \in DOMAIN channel_lookup : channel_lookup[c] \in DOMAIN connections
    /\ \A k \in DOMAIN connections :
           \/ \E c \in DOMAIN channel_lookup : channel_lookup[c] = k
           \/ \E t \in Threads : pc[t] = "remove" /\ conn_id[t] = k

\* No packet is stranded: a channel with packets waiting has a DtpChannel to
\* receive them, or its announcement is on its way to the Incoming stream, or a
\* close is throwing the queue away.
PacketsClaimable ==
    \A ch \in Channel : Queue(ch) # <<>> =>
        \/ Owned(ch)
        \/ \E i \in DOMAIN incoming : incoming[i] = ch
        \/ \E t \in Threads :
              \/ pc[t] \in {"check", "announce"} /\ ChannelOf(packet[t]) = ch
              \/ pc[t] \in {"claim", "resolve", "unlink"} /\ target[t] = ch

\* On one thread, recv returns the packets of a channel in the order in which
\* the socket read them and returns none twice, across close and reopen too.
ArrivalOrder ==
    \A ch \in Channel :
        /\ \A i, j \in DOMAIN Queue(ch) : i < j => Queue(ch)[i].id < Queue(ch)[j].id
        /\ \A i \in DOMAIN Queue(ch) : last[ch] < Queue(ch)[i].id

\* "Creates a channel to a peer.  Will fail if the channel was already created.":
\* two DtpChannels never stand for the same channel.
UniqueHandle ==
    \A g, h \in Handles : handle[g] = handle[h] /\ handle[h] # NoChannel => g = h

\* The datagrams read from the OS that no poll_recv is still carrying.
Delivered ==
    (1..arrived) \ {packet[t].id : t \in {u \in Threads : pc[u] \in {"route", "push"}}}

\* The socket as a map from channels to queues: see DtpMux.
Mux == INSTANCE DtpMux WITH
    waiting   <- [ch \in Channel |-> Queue(ch)],
    closing   <- [t \in Threads |->
                     IF pc[t] \in {"resolve", "unlink"} THEN target[t] ELSE NoChannel],
    delivered <- Delivered

\* The lookup table, the slab with its reused keys and the locks taken one at a
\* time implement a plain map from channels to queues: no packet is lost,
\* doubled, overtaken or moved to another channel by any step of poll_recv,
\* poll_channel, poll_incoming or close.
ImplementsMux == Mux!Spec

\* A packet on a channel that nobody holds is eventually claimable by the
\* application: the Incoming stream yields the channel (or somebody opened it).
AcceptedEventually ==
    \A ch \in Channel :
        (Queue(ch) # <<>> /\ ~ Owned(ch)) ~> (Owned(ch) \/ Queue(ch) = <<>>)

================================================================================
