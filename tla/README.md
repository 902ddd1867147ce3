# A TLA+ model of the rust EFCP implementation

This directory specifies the concurrent and distributed core of the workspace
in TLA+: TLC checks it on small instances, and TLAPS proves the results that
matter most for every value of the constants. `PROJECT.json` lists the runs,
the source lines behind every definition, the hazards and the theorems.

## 1. The system

EFCP is a stack of channels (`trait Channel`: async `send` and `recv`) on UDP.

| Part | State | Operations | What makes it correct |
|---|---|---|---|
| **DTP socket** (`dtp/src/dtp.rs`, `lib.rs`): demultiplexes datagrams by peer address and channel byte | `channel_lookup`, `connections` (a slab of queues), `channels` (taken), `incoming` (announced), each with its own lock | `outgoing`, `poll_incoming`, `poll_channel`, `poll_recv`, `close` (on drop), `poll_send` | a packet reaches its own channel, in order, and is not stranded; the two tables agree; one handle per channel; no unwrap fails |
| **DTCP channel** (`dtcp/src`): numbers packets and marks runs | `set_drf`, `seq_num` (atomics), two inactivity timers | `send`, `recv` | numbers not reused too early; the first packet of a run, and only it, is marked |
| **Negotiation** (`efcp/src/negotiation.rs`): the sides propose protocols in turn | list, position, proposed, accepted, finished | `initiate`, `message`, `into_protocol` | both sides end with the same, most preferred, protocol, or none has one |
| **EFCP connection setup** (`efcp/src/lib.rs`): three handshake messages that carry the negotiation | the Disco session, the `Negotiation`, the external address | `dial`/`initiator`, `incoming`/`responder` | it ends, both sides agree, the assertion in `into_protocol` holds |
| **Encrypted channel** (`efcp/src/secure.rs`) | a nonce counter | `send`, `recv` | a packet is accepted once |
| **Packet formats** (`dtp`, `dtcp`, `efcp` `packet.rs`) | - | encode, parse | parsing inverts encoding |
| **Addresses** (`addr`) | - | parse, format | parsing inverts formatting |
| **Loopback and lossy test channels** (`channel`, `test-channel`) | a queue; delayed packets | `send`, `recv`, `probability` | no packet is lost or duplicated but by the drawn number; the documented extremes |
| **UDP socket with ECN** (`dtp/src/udp.rs`, `platform/`) | - | `recvmsg`, `sendmsg` | wakes its task |
| **Design notes** (`notes/`) | - | - | not compiled by the workspace |

How they interact: all `DtpChannel`s and the `Incoming` stream share one
`Arc<InnerDtpSocket>` and are polled from the executor's threads; whichever
task polls reads datagrams for everybody. A DTCP channel wraps any channel and
may be used by several tasks at once. `EfcpChannel` runs the handshake over
DTCP over DTP, then rebuilds the stack as DTCP over Disco over DTP.

What is hard: the DTP socket locks and unlocks several times inside each method
and uses what it read after the unlock; `close` may run at any point of another
thread's method; slab keys are reused; a panic under a lock poisons it; DTCP's
atomics and timers are taken one at a time by tasks that race; the handshake runs
over datagrams that may be lost, duplicated, reordered or late, with no timeout
or retransmission anywhere; `incoming` runs one handshake at a time, on channels
that a late datagram may have announced. The hazards, each at its line, are in
`PROJECT.json`.

## 2. Modules

| Module | Models | Uses |
|---|---|---|
| `DtpSocket` | the DTP multiplexer, one action per critical section | `DtpMux` (refinement) |
| `DtpMux` | what the multiplexer promises | - |
| `MCDtpSocket` | symmetry sets for TLC | `DtpSocket` |
| `DtpSocketProofs` | theorems about it | `DtpSocket`, `TLAPS` |
| `DtpMuxProofs` | the refinement proof | `DtpSocketProofs` |
| `Dtcp` | one end of a DTCP channel, several tasks | - |
| `DtcpProofs` | theorems about it | `Dtcp`, `TLAPS` |
| `DtcpPacket` | the DTCP header | - |
| `LossyChannel` | the lossy test channel over the loopback channel | - |
| `DtcpLink` | two DTCP ends joined by the lossy channel | `Dtcp` twice, `LossyChannel`, `DtcpPacket` |
| `DtcpLinkProofs` | theorems about it | `DtcpLink`, `TLAPS` |
| `Negotiation` | `Negotiation` as pure operators | - |
| `Addr` | addresses, their text and the parser | - |
| `HandshakePacket` | the layout of a handshake message | `Negotiation`, `Addr` |
| `EfcpHandshake` | `initiator` and `responder` over an unreliable network | `HandshakePacket` |
| `MCEfcpHandshake` | the protocol lists and the address TLC enumerates | `EfcpHandshake` |
| `EfcpHandshakeProofs` | theorems about it, the negotiation and the packet format | `EfcpHandshake`, `TLAPS` |
| `EfcpSockets` | `dial` and `incoming` of several sockets over DTP channels | - |
| `EfcpSocketsProofs` | theorems about it | `EfcpSockets`, `TLAPS` |

Operators called "Faulty variant" are deliberate mistakes that a programmer
could make at that place. No specification uses them; each shows, put in place
of the definition that follows it, that some property notices the mistake.

### DtpSocket

The variables are the fields of `InnerDtpSocket`, the slab written out as
occupied entries, length and free list (the free list decides which key is
reused). `handle` holds the live `DtpChannel`s; `pc` and the locals say where each
thread is. One action is one critical section:

| Method | Actions |
|---|---|
| `outgoing` | `Outgoing` |
| `poll_incoming` | `PollIncoming` (fast path), then `Recv`...`Announce`, `Take`, `Claim` |
| `poll_channel` | `PollChannel`, `Lookup`, `Pop`, then `Recv`...`Announce` and again `Lookup`, `Pop` |
| `poll_recv` | `Recv` or `RecvNothing`, `Route`, `Push`, `Check`, `Announce` |
| `close` | `Drop`, `Resolve`, `Unlink`, `Remove` |
| a failing `unwrap` | `ConnectionsPanic`, `AllocatePanic`, `LookupPanic` |

`connection_id` nests its two locks and nothing else nests, so it is atomic. A
handle cannot be dropped while a future borrows it: `borrowed` says which one a
thread is polling. A packet is its origin, its channel byte and its arrival
number. An idle thread may call any method at any time, so the order of calls
is not constrained beyond Rust's borrow rules. `poll_send` changes no state.

`DtpMux` is the abstract multiplexer: a map from channels to queues. A datagram
joins the queue of its own channel once; a handle takes the oldest packet of
its channel; only closing a channel throws packets away. `ImplementsMux` maps
the queue behind `channel_lookup` to that map: `Push` is `Deliver`, `Outgoing`,
`PollIncoming` and `Claim` are `Open`, `Pop` is `Receive`, `Drop` is `Close`, and
`Unlink` - which makes the queue unreachable - is `Discard`; every other step is
a stutter.

### Dtcp

Each access to a shared atomic or timer is an action, so sends and receives of
several tasks interleave at every one. A timer is off, running or lapsed, and
`Pause` is a pause longer than the sender interval, with or without exceeding
the receiver interval (2 and 3 times the same unit in `build_channel`). `SeqMod`
is 2^16 in the code. `nth`, `late`, `taken`, `silent` and `lapses` are
history; `lapses` counts how often a timer has lapsed.

### LossyChannel, DtcpPacket and DtcpLink

`LossyLoopback` keeps two queues with a lock each; every use of a lock is an
action, so receivers race for delayed packets and a sender is caught between its
two pushes. The random number and the probabilities are multiples of `1/Scale`,
and one number decides both questions, as in the code; the model has no
probabilities, so `probability` is outside it. `DtcpLink` joins the sending
and the receiving half of `Dtcp` by it, with the packets as bytes of
`DtcpPacket`; a byte of the sequence number counts to `ByteBase`, 256 in the code.

### Negotiation, Addr, HandshakePacket and EfcpHandshake

`Negotiation` maps the methods to functions from a record to the new record and the
answer. `HandshakePacket` lays a message out as cells: the tag with the address
flag in its upper nibble, then length-prefixed strings; `LenMax` is what a length
byte can hold, and a name in `Oversized` makes `to_bytes` fail. Names that
fit have the greatest length, so that the address always lies behind a full
field. `Addr` works on the parts of a text between slashes; numbers and IP
addresses stand for themselves, since the standard library formats and parses them.

In `EfcpHandshake` every message is sent as these bytes and parsed from them. An
action is what a task does between two receives: the tasks share only the
network. `wire` is a set, so datagrams are delivered in any order; `Transfer`
may leave a copy behind; `Lose` drops one. A message of the handshake decrypts
only as the next message of its session, a transport message only after the
handshake, and a transport nonce seen before is not refused - all as the code
uses the Disco library, which is external.

### EfcpSockets

Clients dial, servers call `incoming` in a loop, both over the tables of a DTP
socket: `taken` is `channels`, `queue` the queue of each peer, `incoming` the
announcements. A socket's tasks run on one thread here, so a poll is atomic: the
races inside a poll are `DtpSocket`'s subject, the sequences of calls are this
module's.

| Code | Actions |
|---|---|
| `poll_incoming` | `AcceptFast` (an announced channel, not entered in `channels`), `AcceptSlow` |
| `poll_channel` of any other task | `Arrive`, and the pops in the actions below |
| `responder` | `Answer`, `Establish`, `Reject` |
| `dial`, `initiator` | `Dial`, `Connect`, `GiveUp` |
| an `EfcpChannel` in use | `SendData`, `RecvData`, `Drop` |

A datagram carries the dial it belongs to and the responder's session, since only
that session can decrypt it. A first message is not authenticated; that another packet
parses as one by chance is left out. The channel id is the same in all dials: two dials of
a client to a server meet on one channel. A task that has returned an error drops
its channel in the same action, as the code does.

## 3. Runs

### What holds

| Run | Instance | Shows |
|---|---|---|
| `dtp_serial` | 1 thread that may do everything, 2 peers, 3 datagrams, 4 handles | no panic, routing, table agreement, no stranded packet, arrival order, across close, key reuse and reopen; it implements `DtpMux` |
| `dtp_threads` | 2 threads, both accepting, none dropping; 2 channels, 2 datagrams, 3 handles; fairness | routing, table agreement, claimability and the refinement under all interleavings, and announced channels are eventually accepted |
| `dtp_dialers` | 3 threads dialling and dropping one channel | one handle per channel without acceptors, also after panics |
| `dtcp_tasks` | 2 senders, 1 receiver, 5 sends over a counter of 4, 2 pauses, 1 failure | numbers, causes of runs, marking after silence |
| `dtcp_link` | 1 sender, 2 receivers, 2 sends, 1 pause, every `px` and `pq` in halves; fairness | copies conserved between the two locks, only queued packets overtaken, the documented extremes (reliable, partitioned, every packet twice) exact, headers intact, delayed packets released by a later receipt |
| `efcp_setup` | all pairs of lists up to 3 of 4 names (one oversized), 1 loss, 2 duplicates, 1 I/O error; fairness | preferred protocol chosen, failure justified, assertion holds, the observed address reported, undisturbed setup ends alike on both sides |
| `efcp_sockets` | 2 clients, 1 server, 3 dials, 1 packet of data, 1 drop, 1 datagram lost or duplicated; fairness | a channel belongs to a live dial of its peer and to its very session; a handshake under way is attended; a dial on an idle channel connects, whatever happened before |

### Where the code departs from what it says

Each of these runs ends in a counterexample; `PROJECT.json` quotes the line of
the repository that states the property.

| Run | Shows |
|---|---|
| `dtp_race_misroute` | a `close` between `connection_id` and `push` on another thread, and the key reused: a packet of one peer lands on another peer's channel. Without the reuse, the `unwrap` panics and poisons the socket (`dtp_dialers` passes through such states). `NoPanic` is therefore stated for serial drops: `dtp_serial` checks it where channels are dropped and keys reused |
| `dtp_double_open` | `poll_incoming`'s fast path does not take the channel: two handles for one channel |
| `efcp_dup_disagree` | one duplicated datagram, lists of 4 and 3 names: the sides return different protocols |
| `dtcp_first_drf` | a `recv` before the first `send` clears the flag of the first packet |
| `efcp_sockets_starve` | three clients and no fault of the network: a channel accepted through the fast path is announced a second time by its own third message; `incoming` starts another handshake on it, waits for a message nobody sends, and a later dial never returns |

Nothing in the handshake is sent again and no receive has a timeout, so one lost
datagram leaves a dial waiting too. `dial` ignores `Dial.protocols` and offers the
socket's list: the model's `Dial` takes the latter.

`SilenceMarked` is stated up to the first failing send: `?` at
`dtcp/src/lib.rs:177` returns with the timer stopped and the flag consumed, so the
packet after the next silence is not marked.

### Bounds

Two threads, two channels and two datagrams are the least with which every step
of one method can fall between two steps of another on the same or on another
channel; three datagrams in `dtp_serial` let a channel be used, closed and used
again with packets waiting. `Handles` bounds how many `DtpChannel`s live at
once: one more than the announcements a channel can get. Lists of three reach
the negotiation's messages over the encrypted channel in both directions and
the exhaustion of either list first; the disagreement needs four. In
`dtcp_tasks` the counter wraps with the fifth send. In `dtcp_link` two packets and
two receivers are the least with which one receiver is between the locks while
another takes the packet it released; probabilities 0, 1/2 and 1 give all four
fates. In `efcp_sockets` three dials of two clients let one client connect, drop
and dial again while the other's handshake stands in between; the phantom
handshake of `efcp_sockets_starve` needs three clients.

Deadlock is checked in the DTP and DTCP runs except where every thread may have
panicked (`dtp_dialers`, `dtp_race_misroute`). Handshakes end and the applications
may stop sending or dialling, so the EFCP runs and `dtcp_link` allow it. Symmetry
is used on handles and threads where no liveness is checked (the refinement is
checked step by step, and `DtpMux` treats all handles alike), and on protocol
names.

### Fairness

`DtpSocket`: weak fairness of a method that has begun (mutexes are held for a
few instructions), and strong fairness of polling `Incoming`: a poll that finds
nothing wakes its own task at once (`udp.rs`) and the executor queues tasks
first in, first out. Nothing is assumed about datagrams or about the other
calls. `EfcpHandshake`: weak fairness of each task's steps - a task whose
datagram has arrived is polled - and none of `Lose` or `IoError`. `DtcpLink`: the
application keeps receiving (an empty loopback wakes its task at once), and a send
that has begun is polled to its end; nobody has to send. `EfcpSockets`: `dial` and
`incoming` are polled when their socket is readable; the applications need neither
dial, send, receive nor drop.

## 4. Proofs

Every invariant that a passing run checks is also a theorem, for every value of the
constants; where a property holds only under a condition, the theorem assumes that
condition and the runs choose constants that satisfy it.

### The DTP socket

`DtpSocketProofs` and `DtpMuxProofs`, for any threads, peers, handles and number of
datagrams:

- `TypeCorrect`: `TypeOK`. Inductive with `LocalsOK`: a local still to be used is
  never the sentinel.
- `SerialNoPanic`, `SerialTables`, `SerialRouting`, `SerialClaimable`: if
  `SerialClose` (nobody drops a channel, or there is one thread), always `NoPanic`,
  `TablesAgree`, `PacketRouting` and `PacketsClaimable`. `SlabOK` shows that the next
  key is free; `SerialInv` adds `IdsOK`: a slab key in a local still belongs to its
  channel. That is what a concurrent `close` breaks, and why the assumption is
  there: `dtp_race_misroute` is the counterexample without it. The lemmas
  `PushQueue`, `PopQueue`, `UnlinkQueue`, `RemoveQueue` and `StepQueue` say what each
  step does to the queue of each channel; routing and claimability follow from them.
- `SerialImplementsMux`: under the same condition, `ImplementsMux`. The queue lemmas
  are the simulation of each step. Two facts have to be invariant as well:
  `BorrowsOK` (a thread that polls a handle still holds it, so a pop takes from the
  channel the handle stands for) and `HandsOK` (a datagram is in the hands of one
  `poll_recv`, so it is delivered once).
- `DialersUnique`: without acceptors, `UniqueHandle`, panics included: every
  live handle's channel is in `channels`.
- `SerialOrder`: on one thread, `ArrivalOrder`; `PushedLast` says that the
  datagram in hand is newer than all that waits or was received.

### DTCP and the lossy channel

`DtcpProofs`, for any tasks, sends, pauses, failures and counter size:

- `TypeCorrect`: `TypeOK`.
- `SequenceNumbersUnique`: `SeqUnique`. `Tracks` relates a packet's number to the
  counter, up to one wrap; without it nothing says that the counter is not at a
  number used recently.
- `SilenceStartsRun`: `SilenceMarked`. `TimerOK` says that with no send in
  progress the timer runs and has lapsed after a silence (the last send to
  return starts it), `CarriedOn` that a sender keeps what it found.
- `RunsBounded`: `RunsHaveCause`, at most one flag more than lapses. A lapse is a token that is passed on from the timer
  to a task's local, to the shared flag and to a packet, and never copied: `CauseInv`
  counts the packets, the locals, the flag and the timers together.

`DtcpLinkProofs`, for any tasks, probabilities and byte size:

- `TypeCorrect`: `TypeOK`, both ends and the channel.
- `ReceivedIsGenuine`: `Genuine`. `CellsOK` traces whatever is in a queue, delayed or
  in a task's hands to the send that made it; its lemma `RoundTrip` inverts the header.
- `OnlyQueuedLate`: `OnlyQueuedOvertaken`. What was received followed by what is in the
  loopback is one sequence, `Line`: a receive only moves the border inside it, sends
  and releases append to it, and `InOrder` of that sequence is inductive.
- `CopiesConserved`: `Conserved`. `Balanced` counts the copies of a packet in the two
  queues, among those received and in hands, against those that the random number has
  granted so far; `HandsOK` says that a task holds a packet just while it is between
  the two locks.
- `ExtremesAsDocumented`: `ExtremesExact`. On a reliable channel `Line` is all that was
  sent, each packet at its own place, and on a partitioned one it is empty
  (`ExtremeInv`): with `pq` = 0 nothing is queued, so no receive moves anything
  (`NothingMoved`). That a packet comes twice follows from `Balanced`.

### The handshake

`EfcpHandshakeProofs`, for any protocol lists, names, address, losses, duplicates and
I/O errors:

- `RoundTrip`, a lemma: `from_bytes` of what `to_bytes` wrote is the message and the
  address, for every message that can be sent. `ProposeStep` and `HandleStep` give the
  negotiation's methods as a case for each message; all that follows uses those.
- `TypeCorrect`: `TypeOK`, which includes that every datagram in flight parses.
- `AddressKnown`: `AddressReported`, from `Located_I`.
- `NeverPanics`: `AssertionHolds`, whatever is delivered twice. `AssertInv`: a side that
  leaves its loop has finished its negotiation.
- `PreferenceKept` and `FailuresJustified`: `PreferredChosen` and `FailureJustified`.
  `ResultInv` says that without duplicates one message is in flight (`OneInFlight`) and
  fits the side that will read it (`FitsResponder`, `FitsInitiator`): both sides have
  proposed their lists up to the same point, and none of what they proposed is common,
  unless it is the answer. `efcp_dup_disagree` shows that the condition is needed.
- `AgreeUnlessDuplicated`: without duplicates, `Agreement`, since the first protocol
  in turn is one protocol (`PreferredUnique`).

### Several sockets

`EfcpSocketsProofs`, for any clients, servers, dials, data, drops and faults:

- `TypeCorrect`: `TypeOK`.
- `SessionsMatched`: `SessionMatched`. `SessionInv` traces every message in flight to
  the dial that caused it (`FirstCause`, `ThirdCause`, `AnswerCause`) and every session
  number to one dial (`OneDial`).
- `HandshakesAttended`: `HandshakeAttended`. In a calm run (no faults, data or drops)
  `Orderly` holds: a client keeps the channel of a dial that has not failed (`Claimed`),
  so a pair of sockets has one such dial; at most one datagram flies between them
  (`Lone`), and it finds its reader where it is expected (`Backed`). It follows that
  `Reject`, `GiveUp` and `RecvData` cannot happen in such a run (`NeverRejects`,
  `NeverGivesUp`, `NothingToRead`).

The assumptions are the named `ASSUME`s of the modules (sentinels are not values,
roles are threads, the two roles of sockets and tasks are disjoint, counters are
naturals, a byte has at least two values, a field holds at least 5 characters),
which TLC evaluates in the runs. The values of the code - 256, 255, 2^16 - satisfy them.

Only model-checked: liveness (`AcceptedEventually`, `Connects`, `DelayedReleased`,
`IdleDialConnects`), because fairness and `ENABLED` are out of the prover's reach.

## 5. Not modelled, and the plan

Left out:

- payload bytes, ECN, TTL and the layout of `DiscoPacket`: they carry no control;
- `recvmsg`, `sendmsg` and control messages (`dtp/src/platform`): operating system
  calls; the cryptography: external;
- `LossyChannelBuilder::probability`: a frequency, and the model has none;
- durations: `DtcpBuilder` computes intervals, with `max_retries + 1` in a u8; the
  model only has pauses that exceed an interval;
- sockets that both dial and listen (`EfcpSockets` lets a socket do one of them);
- the conversions of `ToAddr`, accessors, logging and `Debug`;
- `notes/`: sketches of a full EFCP state machine that no crate compiles, and that
  the compiled code does not follow.

To prove next, in this order:

1. `Dtcp`: when the first packet of all is marked (`FirstPacketMarked` fails with a
   `recv` before the first `send`, and with two sends that race).
2. `EfcpSockets`: in calm runs, that no dial fails other than for a channel already
   taken, from `NeverGivesUp`.
3. `DtpSocket`: which of the serial theorems survive a `close` on another thread when
   no slab key is in use elsewhere.
