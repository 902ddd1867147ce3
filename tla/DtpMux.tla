--------------------------------- MODULE DtpMux --------------------------------
(***************************************************************************)
(* What a DTP socket promises its users, without the tables, the slab and  *)
(* the locks: a map from channels to queues.  A datagram is put once, at   *)
(* the end of the queue of the channel it was sent on; a handle takes      *)
(* packets from the front of its channel's queue; only closing a channel   *)
(* throws packets away.  DtpSocket is shown to implement this.             *)
(***************************************************************************)
EXTENDS Integers, Sequences

CONSTANTS Threads, Peers, ChanIds, Handles, MaxDatagrams, NoChannel

Channel == [peer_addr: Peers, channel_id: ChanIds]
Packet  == [from: Peers, channel_id: ChanIds, id: 1..MaxDatagrams]

VARIABLES
    waiting,    \* the packets waiting on each channel
    handle,     \* the channel of each live DtpChannel
    closing,    \* the channel that a thread's close has yet to empty
    delivered,  \* the datagrams that have been put on a queue
    last        \* the last packet taken from each channel

vars == <<waiting, handle, closing, delivered, last>>

Init ==
    /\ waiting = [ch \in Channel |-> <<>>]
    /\ handle = [h \in Handles |-> NoChannel]
    /\ closing = [t \in Threads |-> NoChannel]
    /\ delivered = {}
    /\ last = [ch \in Channel |-> 0]

\* A datagram that was not delivered before joins the queue of its channel.
Deliver(p) ==
    LET ch == [peer_addr |-> p.from, channel_id |-> p.channel_id] IN
    /\ p.id \notin delivered
    /\ delivered' = delivered \cup {p.id}
    /\ waiting' = [waiting EXCEPT ![ch] = Append(@, p)]
    /\ UNCHANGED <<handle, closing, last>>

\* A channel is dialled or accepted.
Open(h, ch) ==
    /\ handle[h] = NoChannel
    /\ handle' = [handle EXCEPT ![h] = ch]
    /\ UNCHANGED <<waiting, closing, delivered, last>>

\* recv on a handle returns the packet that has waited longest.
Receive(h) ==
    LET ch == handle[h] IN
    /\ ch # NoChannel
    /\ waiting[ch] # <<>>
    /\ last' = [last EXCEPT ![ch] = Head(waiting[ch]).id]
    /\ waiting' = [waiting EXCEPT ![ch] = Tail(@)]
    /\ UNCHANGED <<handle, closing, delivered>>

\* A handle is dropped, and later what waits on its channel is thrown away.
Close(t, h) ==
    /\ handle[h] # NoChannel
    /\ closing[t] = NoChannel
    /\ closing' = [closing EXCEPT ![t] = handle[h]]
    /\ handle' = [handle EXCEPT ![h] = NoChannel]
    /\ UNCHANGED <<waiting, delivered, last>>

Discard(t) ==
    /\ closing[t] # NoChannel
    /\ waiting' = [waiting EXCEPT ![closing[t]] = <<>>]
    /\ closing' = [closing EXCEPT ![t] = NoChannel]
    /\ UNCHANGED <<handle, delivered, last>>

Next ==
    \/ \E p \in Packet : Deliver(p)
    \/ \E h \in Handles : Receive(h) \/ \E ch \in Channel : Open(h, ch)
    \/ \E t \in Threads : Discard(t) \/ \E h \in Handles : Close(t, h)

Spec == Init /\ [][Next]_vars

================================================================================
