----------------------------- MODULE LossyChannel -----------------------------
(***************************************************************************)
(* One direction of the unreliable channel that the DTCP tests run over:   *)
(* LossyLoopback of test-channel/src/lib.rs on top of Loopback of          *)
(* channel/src/lib.rs.  Each queue has a lock of its own, and each time a  *)
(* lock is held is an action.                                              *)
(*                                                                         *)
(* The random number and the two probabilities are multiples of 1 / Scale. *)
(***************************************************************************)
EXTENDS Integers, Sequences, FiniteSets

CONSTANTS
    Senders,    \* tasks that call send
    Receivers,  \* tasks that call recv
    Contents,   \* what can be sent
    Scale       \* the probabilities are 0, 1/Scale, .., 1

VARIABLES
    px,         \* probability of a packet getting transmitted
    pq,         \* probability of a packet getting queued
    loopback,   \* Loopback: the packets that can be received
    delayed,    \* the packets that are released by the next receive
    at,         \* where each task is in send or recv
    hand,       \* local: the packet a task sends or is about to return
    moving,     \* local: the packet that recv moves from delayed to loopback
    fates,      \* history: the random number drawn for each packet sent
    popped      \* history: the packets taken from the loopback, in order

vars == <<px, pq, loopback, delayed, at, hand, moving, fates, popped>>

Tasks == Senders \cup Receivers

\* A packet; id is history: it is the id-th that was sent.
Cell == [bytes: Contents, id: Nat]

TypeOK ==
    /\ px \in 0..Scale /\ pq \in 0..Scale
    /\ loopback \in Seq(Cell) /\ delayed \in Seq(Cell)
    /\ at \in [Tasks -> {"out", "queue", "drain", "resend"}]
    /\ hand \in [Tasks -> Seq(Cell)] /\ moving \in [Tasks -> Seq(Cell)]
    /\ fates \in Seq(0..(Scale - 1))
    /\ popped \in Seq(Cell)

-----------------------------------------------------------------------------
(***************************************************************************)
(* send.                                                                   *)
(***************************************************************************)

\* Faulty variant: the random number can be 1.
SendInclusive(c, bytes) ==
    /\ c \in Senders /\ at[c] = "out"
    /\ \E fate \in 0..Scale :
        LET cell == [bytes |-> bytes, id |-> Len(fates) + 1]
            queued == fate < pq IN
        /\ fates' = Append(fates, fate)
        /\ loopback' = IF fate < px THEN Append(loopback, cell) ELSE loopback
        /\ hand' = [hand EXCEPT ![c] = IF queued THEN <<cell>> ELSE <<>>]
        /\ at' = [at EXCEPT ![c] = IF queued THEN "queue" ELSE "out"]
    /\ UNCHANGED <<px, pq, delayed, moving, popped>>

\* Faulty variant: the number is compared with <=, so 0 queues a packet always.
SendAtMost(c, bytes) ==
    /\ c \in Senders /\ at[c] = "out"
    /\ \E fate \in 0..(Scale - 1) :
        LET cell == [bytes |-> bytes, id |-> Len(fates) + 1]
            queued == fate <= pq IN
        /\ fates' = Append(fates, fate)
        /\ loopback' = IF fate < px THEN Append(loopback, cell) ELSE loopback
        /\ hand' = [hand EXCEPT ![c] = IF queued THEN <<cell>> ELSE <<>>]
        /\ at' = [at EXCEPT ![c] = IF queued THEN "queue" ELSE "out"]
    /\ UNCHANGED <<px, pq, delayed, moving, popped>>

\* The fate of the packet is drawn, and it is perhaps pushed to the loopback.
Send(c, bytes) ==
    /\ c \in Senders /\ at[c] = "out"
    /\ \E fate \in 0..(Scale - 1) :
        LET cell == [bytes |-> bytes, id |-> Len(fates) + 1]
            queued == fate < pq IN
        /\ fates' = Append(fates, fate)
        /\ loopback' = IF fate < px THEN Append(loopback, cell) ELSE loopback
        /\ hand' = [hand EXCEPT ![c] = IF queued THEN <<cell>> ELSE <<>>]
        /\ at' = [at EXCEPT ![c] = IF queued THEN "queue" ELSE "out"]
    /\ UNCHANGED <<px, pq, delayed, moving, popped>>

\* The same random number has decided that it is queued as well.
Queue(c) ==
    /\ at[c] = "queue"
    /\ delayed' = delayed \o hand[c]
    /\ hand' = [hand EXCEPT ![c] = <<>>]
    /\ at' = [at EXCEPT ![c] = "out"]
    /\ UNCHANGED <<px, pq, loopback, moving, fates, popped>>

(***************************************************************************)
(* recv.                                                                   *)
(***************************************************************************)

\* Faulty variants: the delayed packets are not released; a packet is left in
\* the loopback; the newest one is taken.
PollOnly(c) ==
    /\ c \in Receivers /\ at[c] = "out"
    /\ loopback # <<>>
    /\ popped' = Append(popped, Head(loopback))
    /\ loopback' = Tail(loopback)
    /\ UNCHANGED <<px, pq, delayed, hand, at, moving, fates>>

PollKeep(c) ==
    /\ c \in Receivers /\ at[c] = "out"
    /\ loopback # <<>>
    /\ hand' = [hand EXCEPT ![c] = <<Head(loopback)>>]
    /\ popped' = Append(popped, Head(loopback))
    /\ at' = [at EXCEPT ![c] = "drain"]
    /\ UNCHANGED <<px, pq, loopback, delayed, moving, fates>>

PollNewest(c) ==
    /\ c \in Receivers /\ at[c] = "out"
    /\ loopback # <<>>
    /\ hand' = [hand EXCEPT ![c] = <<loopback[Len(loopback)]>>]
    /\ popped' = Append(popped, loopback[Len(loopback)])
    /\ loopback' = SubSeq(loopback, 1, Len(loopback) - 1)
    /\ at' = [at EXCEPT ![c] = "drain"]
    /\ UNCHANGED <<px, pq, delayed, moving, fates>>

\* RecvFuture::poll is Ready.  An empty loopback is polled again at once: the
\* future wakes itself.
Poll(c) ==
    /\ c \in Receivers /\ at[c] = "out"
    /\ loopback # <<>>
    /\ hand' = [hand EXCEPT ![c] = <<Head(loopback)>>]
    /\ popped' = Append(popped, Head(loopback))
    /\ loopback' = Tail(loopback)
    /\ at' = [at EXCEPT ![c] = "drain"]
    /\ UNCHANGED <<px, pq, delayed, moving, fates>>

\* delayed.lock().unwrap().pop_front()
Release(c) ==
    /\ at[c] = "drain"
    /\ delayed # <<>>
    /\ moving' = [moving EXCEPT ![c] = <<Head(delayed)>>]
    /\ delayed' = Tail(delayed)
    /\ at' = [at EXCEPT ![c] = "resend"]
    /\ UNCHANGED <<px, pq, loopback, hand, fates, popped>>

\* loopback.send(packet), and the loop goes on.
Resend(c) ==
    /\ at[c] = "resend"
    /\ loopback' = loopback \o moving[c]
    /\ moving' = [moving EXCEPT ![c] = <<>>]
    /\ at' = [at EXCEPT ![c] = "drain"]
    /\ UNCHANGED <<px, pq, delayed, hand, fates, popped>>

\* Nothing is delayed any more: recv returns the packet in its hand.
Return(c) ==
    /\ at[c] = "drain"
    /\ delayed = <<>>
    /\ hand' = [hand EXCEPT ![c] = <<>>]
    /\ at' = [at EXCEPT ![c] = "out"]
    /\ UNCHANGED <<px, pq, loopback, delayed, moving, fates, popped>>

-----------------------------------------------------------------------------
\* LossyChannelBuilder::new, which asserts the range of px and pq, and split.
Init ==
    /\ px \in 0..Scale /\ pq \in 0..Scale
    /\ loopback = <<>> /\ delayed = <<>>
    /\ at = [c \in Tasks |-> "out"]
    /\ hand = [c \in Tasks |-> <<>>] /\ moving = [c \in Tasks |-> <<>>]
    /\ fates = <<>> /\ popped = <<>>

-----------------------------------------------------------------------------
(***************************************************************************)
(* Properties.                                                             *)
(***************************************************************************)

Copies(cells, i) == Cardinality({k \in DOMAIN cells : cells[k].id = i})

\* Copies of the i-th packet in the hands of tasks that queue or move it.
InHand(i) ==
    Cardinality({c \in Senders : \E k \in DOMAIN hand[c] : hand[c][k].id = i})
        + Cardinality({c \in Receivers : \E k \in DOMAIN moving[c] : moving[c][k].id = i})

\* However sends and receives interleave between the two locks, a packet is
\* received once, twice or not at all, just as its fate decided: moving delayed
\* packets to the loopback neither loses nor duplicates one.
Conserved ==
    \A i \in DOMAIN fates :
        Copies(popped, i) + Copies(loopback, i) + Copies(delayed, i) + InHand(i)
            = (IF fates[i] < px THEN 1 ELSE 0) + (IF fates[i] < pq THEN 1 ELSE 0)

\* A packet is received after one that was sent later only if it was queued, so
\* a channel with pq = 0 keeps the order.
OnlyQueuedOvertaken ==
    \A j \in DOMAIN popped : \A i \in 1..(j - 1) :
        popped[i].id > popped[j].id => fates[popped[j].id] < pq

\* Every copy of the i-th packet that its fate allows has been received.
AllReceived(i) ==
    i \in DOMAIN fates /\ Copies(loopback, i) + Copies(delayed, i) + InHand(i) = 0

\* "channels that are reliable (px=1.0, pq=0.0), simulate network partitions
\* (px=0.0, pq=0.0), send all packets twice (px=1.0, pq=1.0)": at the ends of the
\* range nothing is left to the random number.  A reliable channel yields the
\* packets one by one as they were sent, whichever receivers race for them; a
\* partitioned one yields nothing; and of a packet none of whose copies is under
\* way any more, the third one has yielded two.
ExtremesExact ==
    /\ px = Scale /\ pq = 0 => \A i \in DOMAIN popped : popped[i].id = i
    /\ px = 0 /\ pq = 0 => popped = <<>>
    /\ px = Scale /\ pq = Scale =>
           \A i \in DOMAIN fates : AllReceived(i) => Copies(popped, i) = 2

================================================================================
