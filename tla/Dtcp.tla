--------------------------------- MODULE Dtcp ---------------------------------
(***************************************************************************)
(* One end of a DTCP channel: DtcpChannel::send and ::recv of              *)
(* dtcp/src/lib.rs, called by several tasks at once.                       *)
(*                                                                         *)
(* The two inactivity timers and the two atomics are shared; each access   *)
(* of one of them is an action.  A Timer is "off", "running", or "lapsed"  *)
(* when it was started more than its interval ago; the intervals           *)
(* themselves are abstracted to how long a pause is.                       *)
(***************************************************************************)
EXTENDS Integers, Sequences, FiniteSets

CONSTANTS
    Senders,        \* tasks that call send
    Receivers,      \* tasks that call recv
    SeqMod,         \* number of sequence numbers: 2^16 in the code
    MaxSends,       \* bound on the calls of send
    MaxPauses,      \* bound on the pauses longer than an interval
    MaxFailures     \* bound on the sends that the lower channel fails

ASSUME DtcpAssumption ==
    /\ Senders \cap Receivers = {}
    /\ SeqMod \in Nat \ {0}
    /\ MaxSends \in Nat /\ MaxPauses \in Nat /\ MaxFailures \in Nat

Tasks == Senders \cup Receivers

\* A transfer packet.  The last two fields are history: nth tells which number
\* taken from the counter it carries; late, that when its send began no other
\* send was in progress and more than the sender inactivity interval had passed
\* since the last successful one.
Packet == [drf: BOOLEAN, seq_num: 0..(SeqMod - 1), nth: Nat, late: BOOLEAN]

TimerState == {"off", "running", "lapsed"}

VARIABLES
    set_drf,    \* AtomicBool: the next packet starts a run
    seq_num,    \* AtomicU16
    sit, rit,   \* the sender and the receiver inactivity timer
    pc,         \* where each task is in send or recv
    expired,    \* local: what Timer::stop returned
    packet,     \* local: the packet a sender is building
    wire,       \* the packets handed to the lower channel, in order
    taken,      \* history: how many numbers were taken from seq_num
    silent,     \* history: no send for longer than the sender interval
    lapses,     \* history: how often a timer has lapsed
    sends, pauses, failures     \* what has happened so far

counters == <<lapses, sends, pauses, failures>>
vars == <<set_drf, seq_num, sit, rit, pc, expired, packet, wire, taken, silent, counters>>

Blank == [drf |-> FALSE, seq_num |-> 0, nth |-> 0, late |-> FALSE]

\* The type invariant.
TypeOK ==
    /\ set_drf \in BOOLEAN
    /\ seq_num \in 0..(SeqMod - 1)
    /\ sit \in TimerState /\ rit \in TimerState
    /\ pc \in [Tasks -> {"idle", "swap", "number", "transmit", "start_sit",
                         "store", "await", "start_rit"}]
    /\ expired \in [Tasks -> BOOLEAN]
    /\ packet \in [Tasks -> Packet]
    /\ wire \in Seq(Packet)
    /\ taken \in Nat
    /\ silent \in BOOLEAN
    /\ lapses \in Nat
    /\ sends \in 0..MaxSends /\ pauses \in 0..MaxPauses /\ failures \in 0..MaxFailures

NoneSending == \A c \in Senders : pc[c] = "idle"

Goto(c, l) == pc' = [pc EXCEPT ![c] = l]

-----------------------------------------------------------------------------
(***************************************************************************)
(* send.                                                                   *)
(***************************************************************************)

\* self.sit.lock().unwrap().stop()
StopSit(c) ==
    /\ c \in Senders /\ pc[c] = "idle"
    /\ sends < MaxSends
    /\ sends' = sends + 1
    /\ expired' = [expired EXCEPT ![c] = sit = "lapsed"]
    /\ sit' = "off"
    /\ packet' = [packet EXCEPT ![c] = [Blank EXCEPT !.late = silent /\ NoneSending]]
    /\ Goto(c, "swap")
    /\ UNCHANGED <<set_drf, seq_num, rit, wire, taken, silent, lapses, pauses, failures>>

\* Faulty variants: a load in place of the swap; the timer's answer ignored.
LoadDrf(c) ==
    /\ pc[c] = "swap"
    /\ packet' = [packet EXCEPT ![c].drf = set_drf \/ expired[c]]
    /\ expired' = [expired EXCEPT ![c] = FALSE]
    /\ Goto(c, "number")
    /\ UNCHANGED <<set_drf, seq_num, sit, rit, wire, taken, silent, counters>>

SwapDrfOnly(c) ==
    /\ pc[c] = "swap"
    /\ packet' = [packet EXCEPT ![c].drf = set_drf]
    /\ set_drf' = FALSE
    /\ expired' = [expired EXCEPT ![c] = FALSE]
    /\ Goto(c, "number")
    /\ UNCHANGED <<seq_num, sit, rit, wire, taken, silent, counters>>

\* self.set_drf.swap(false) || expired
SwapDrf(c) ==
    /\ pc[c] = "swap"
    /\ packet' = [packet EXCEPT ![c].drf = set_drf \/ expired[c]]
    /\ set_drf' = FALSE
    /\ expired' = [expired EXCEPT ![c] = FALSE]
    /\ Goto(c, "number")
    /\ UNCHANGED <<seq_num, sit, rit, wire, taken, silent, counters>>

\* Faulty variants: the counter does not wrap; a new run starts again at zero.
TakeNumberUnbounded(c) ==
    /\ pc[c] = "number"
    /\ packet' = [packet EXCEPT ![c].seq_num = seq_num, ![c].nth = taken]
    /\ taken' = taken + 1
    /\ seq_num' = seq_num + 1
    /\ Goto(c, "transmit")
    /\ UNCHANGED <<set_drf, sit, rit, expired, wire, silent, counters>>

TakeNumberRestart(c) ==
    LET number == IF packet[c].drf THEN 0 ELSE seq_num IN
    /\ pc[c] = "number"
    /\ packet' = [packet EXCEPT ![c].seq_num = number, ![c].nth = taken]
    /\ taken' = taken + 1
    /\ seq_num' = (number + 1) % SeqMod
    /\ Goto(c, "transmit")
    /\ UNCHANGED <<set_drf, sit, rit, expired, wire, silent, counters>>

\* self.seq_num.fetch_add(1), which wraps
TakeNumber(c) ==
    /\ pc[c] = "number"
    /\ packet' = [packet EXCEPT ![c].seq_num = seq_num, ![c].nth = taken]
    /\ taken' = taken + 1
    /\ seq_num' = (seq_num + 1) % SeqMod
    /\ Goto(c, "transmit")
    /\ UNCHANGED <<set_drf, sit, rit, expired, wire, silent, counters>>

\* self.channel.send(..).await: the packet is out.
Transmit(c) ==
    /\ pc[c] = "transmit"
    /\ wire' = Append(wire, packet[c])
    /\ silent' = FALSE
    /\ packet' = [packet EXCEPT ![c] = Blank]
    /\ Goto(c, "start_sit")
    /\ UNCHANGED <<set_drf, seq_num, sit, rit, expired, taken, counters>>

\* The lower channel fails, and `?` returns before the timer is started again.
TransmitFails(c) ==
    /\ pc[c] = "transmit"
    /\ failures < MaxFailures
    /\ failures' = failures + 1
    /\ packet' = [packet EXCEPT ![c] = Blank]
    /\ Goto(c, "idle")
    /\ UNCHANGED <<set_drf, seq_num, sit, rit, expired, wire, taken, silent, lapses, sends, pauses>>

StartSit(c) ==
    /\ pc[c] = "start_sit"
    /\ sit' = "running"
    /\ silent' = FALSE
    /\ Goto(c, "idle")
    /\ UNCHANGED <<set_drf, seq_num, rit, expired, packet, wire, taken, counters>>

(***************************************************************************)
(* recv.                                                                   *)
(***************************************************************************)
StopRit(c) ==
    /\ c \in Receivers /\ pc[c] = "idle"
    /\ expired' = [expired EXCEPT ![c] = rit = "lapsed"]
    /\ rit' = "off"
    /\ Goto(c, "store")
    /\ UNCHANGED <<set_drf, seq_num, sit, packet, wire, taken, silent, counters>>

\* self.set_drf.store(expired)
StoreDrf(c) ==
    /\ pc[c] = "store"
    /\ set_drf' = expired[c]
    /\ expired' = [expired EXCEPT ![c] = FALSE]
    /\ Goto(c, "await")
    /\ UNCHANGED <<seq_num, sit, rit, packet, wire, taken, silent, counters>>

\* channel.recv().await and DtcpPacket::parse: a packet, or an error that
\* returns before the timer is started again.
Receive(c) ==
    /\ pc[c] = "await"
    /\ Goto(c, "start_rit") \/ Goto(c, "idle")
    /\ UNCHANGED <<set_drf, seq_num, sit, rit, expired, packet, wire, taken, silent, counters>>

StartRit(c) ==
    /\ pc[c] = "start_rit"
    /\ rit' = "running"
    /\ Goto(c, "idle")
    /\ UNCHANGED <<set_drf, seq_num, sit, expired, packet, wire, taken, silent, counters>>

(***************************************************************************)
(* Time.  A pause longer than the sender interval (2 dt), or longer than   *)
(* the receiver interval too (3 dt).                                       *)
(***************************************************************************)
Elapse(timer) == IF timer = "running" THEN "lapsed" ELSE timer

\* 1 if the timer lapses.
Lapse(timer, next) == IF timer = next THEN 0 ELSE 1

Pause ==
    /\ pauses < MaxPauses
    /\ pauses' = pauses + 1
    /\ sit' = Elapse(sit)
    /\ rit' \in {rit, Elapse(rit)}
    /\ lapses' = lapses + Lapse(sit, sit') + Lapse(rit, rit')
    /\ silent' = (wire # <<>>)
    /\ UNCHANGED <<set_drf, seq_num, pc, expired, packet, wire, taken, sends, failures>>

-----------------------------------------------------------------------------
\* DtcpBuilder::build_channel.
Init ==
    /\ set_drf = TRUE
    /\ seq_num = 0
    /\ sit = "off" /\ rit = "off"
    /\ pc = [c \in Tasks |-> "idle"]
    /\ expired = [c \in Tasks |-> FALSE]
    /\ packet = [c \in Tasks |-> Blank]
    /\ wire = <<>>
    /\ taken = 0
    /\ silent = FALSE
    /\ lapses = 0 /\ sends = 0 /\ pauses = 0 /\ failures = 0

Next ==
    \/ \E c \in Tasks :
          \/ StopSit(c) \/ SwapDrf(c) \/ TakeNumber(c) \/ Transmit(c) \/ TransmitFails(c)
          \/ StartSit(c)
          \/ StopRit(c) \/ StoreDrf(c) \/ Receive(c) \/ StartRit(c)
    \/ Pause

Spec == Init /\ [][Next]_vars

-----------------------------------------------------------------------------
(***************************************************************************)
(* Properties.                                                             *)
(***************************************************************************)

\* The tasks that hold a numbered packet not yet sent.
Holders == {c \in Tasks : pc[c] = "transmit"}

\* Two packets with the same number are a whole cycle of numbers apart.
Apart(p, q) ==
    p.seq_num = q.seq_num => p.nth - q.nth >= SeqMod \/ q.nth - p.nth >= SeqMod

\* A1, "sequence number of a packet [..] is never reused while one or more copies
\* of that unit [..] exist": whichever tasks send, and with the counter wrapping,
\* a number is only used again after every other number was used.
SeqUnique ==
    /\ \A i, j \in DOMAIN wire : i # j => Apart(wire[i], wire[j])
    /\ \A c \in Holders : \A i \in DOMAIN wire : Apart(wire[i], packet[c])
    /\ \A c, d \in Holders : c # d => Apart(packet[c], packet[d])

\* No run is started without a cause: besides the first one, each data run flag
\* on the wire is due to a timer that lapsed, and a lapse is reported once
\* however many sends and receives race for it.
RunsHaveCause ==
    Cardinality({i \in DOMAIN wire : wire[i].drf}) <= 1 + lapses

\* The first packet after a silence longer than the sender interval carries the
\* data run flag, although every send stops the timer and every recv overwrites
\* set_drf - as long as no send has failed.
SilenceMarked == failures = 0 => \A i \in DOMAIN wire : wire[i].late => wire[i].drf

\* "Data run flag indicates that this is the first packet of a run": so the
\* first packet of all carries it.
FirstPacketMarked == wire # <<>> => wire[1].drf

================================================================================
