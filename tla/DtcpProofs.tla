------------------------------ MODULE DtcpProofs ------------------------------
(***************************************************************************)
(* What holds of a DTCP channel for any number of sending and receiving    *)
(* tasks, sends, pauses and failures, and for any size of the counter.     *)
(***************************************************************************)
EXTENDS Dtcp, FiniteSetTheorems, TLAPS

\* Only senders are at the labels of send, and only receivers at those of recv.
RolesOK ==
    \A c \in Tasks :
        /\ pc[c] \in {"swap", "number", "transmit", "start_sit"} => c \in Senders
        /\ pc[c] \in {"store", "await", "start_rit"} => c \notin Senders

TypeInv == TypeOK /\ RolesOK

\* The counter wraps to zero after its last value: fetch_add on an AtomicU16.
LEMMA Wrap ==
    ASSUME NEW n \in 0..(SeqMod - 1)
    PROVE  (n + 1) % SeqMod = IF n + 1 = SeqMod THEN 0 ELSE n + 1
<1>1. SeqMod \in Nat \ {0}
  BY DtcpAssumption
<1>2. CASE n + 1 = SeqMod
  BY <1>1, <1>2
<1>3. CASE n + 1 # SeqMod
  BY <1>1, <1>3
<1>4. QED
  BY <1>2, <1>3

\* The shared atomics and timers and the locals of send and recv keep their
\* types, and a task stays in the method it called.
LEMMA TypeInvariant == Spec => []TypeInv
<1> USE DtcpAssumption
<1>1. ASSUME Init PROVE TypeInv
  <2>1. Blank \in Packet /\ wire \in Seq(Packet)
    BY <1>1 DEF Init, Blank, Packet
  <2>2. set_drf \in BOOLEAN /\ silent \in BOOLEAN
    BY <1>1, Zenon DEF Init
  <2>3. expired \in [Tasks -> BOOLEAN] /\ packet \in [Tasks -> Packet]
    BY <1>1, <2>1 DEF Init
  <2>4. QED
    BY <1>1, <2>1, <2>2, <2>3 DEF Init, TypeInv, TypeOK, RolesOK, TimerState
<1>2. ASSUME TypeInv, [Next]_vars PROVE TypeInv'
  <2>0. TypeOK /\ RolesOK
    BY <1>2 DEF TypeInv
  <2>1. ASSUME NEW c \in Tasks, StopSit(c) PROVE TypeInv'
    <3>1. [Blank EXCEPT !.late = silent /\ NoneSending] \in Packet
      <4> DEFINE late == silent /\ NoneSending
      <4>1. late \in BOOLEAN
        BY DEF NoneSending
      <4> HIDE DEF late
      <4>2. Blank \in Packet
        BY DEF Blank, Packet
      <4>3. [Blank EXCEPT !.late = late] \in Packet
        BY <4>1, <4>2 DEF Packet
      <4>4. QED
        BY <4>3 DEF late
    <3>2. QED
      BY <2>0, <2>1, <3>1 DEF StopSit, TypeInv, TypeOK, RolesOK, TimerState, Goto, Tasks
  <2>2. ASSUME NEW c \in Tasks, SwapDrf(c) PROVE TypeInv'
    <3>1. [packet[c] EXCEPT !.drf = set_drf \/ expired[c]] \in Packet
      BY <2>0 DEF Packet, TypeOK
    <3>2. QED
      BY <2>0, <2>2, <3>1 DEF SwapDrf, TypeInv, TypeOK, RolesOK, counters, Goto
  <2>3. ASSUME NEW c \in Tasks, TakeNumber(c) PROVE TypeInv'
    <3>1. seq_num' \in 0..(SeqMod - 1)
      BY <2>0, <2>3, Wrap DEF TakeNumber, TypeOK
    <3>2. [packet[c] EXCEPT !.seq_num = seq_num, !.nth = taken] \in Packet
      BY <2>0 DEF Packet, TypeOK
    <3>3. QED
      BY <2>0, <2>3, <3>1, <3>2 DEF TakeNumber, TypeInv, TypeOK, RolesOK, counters, Goto
  <2>4. ASSUME NEW c \in Tasks, Transmit(c) PROVE TypeInv'
    <3>1. Blank \in Packet /\ packet[c] \in Packet
      BY <2>0 DEF Blank, Packet, TypeOK
    <3>2. wire' \in Seq(Packet)
      BY <2>0, <2>4, <3>1 DEF Transmit, TypeOK
    <3>3. QED
      BY <2>0, <2>4, <3>1, <3>2 DEF Transmit, TypeInv, TypeOK, RolesOK, counters, Goto
  <2>5. ASSUME NEW c \in Tasks, TransmitFails(c) PROVE TypeInv'
    <3>1. Blank \in Packet
      BY DEF Blank, Packet
    <3>2. QED
      BY <2>0, <2>5, <3>1 DEF TransmitFails, TypeInv, TypeOK, RolesOK, Goto
  <2>6. ASSUME NEW c \in Tasks, StartSit(c) PROVE TypeInv'
    BY <2>0, <2>6 DEF StartSit, TypeInv, TypeOK, RolesOK, counters, TimerState, Goto
  <2>7. ASSUME NEW c \in Tasks, StopRit(c) PROVE TypeInv'
    BY <2>0, <2>7 DEF StopRit, TypeInv, TypeOK, RolesOK, counters, TimerState, Goto, Tasks
  <2>8. ASSUME NEW c \in Tasks, StoreDrf(c) PROVE TypeInv'
    BY <2>0, <2>8 DEF StoreDrf, TypeInv, TypeOK, RolesOK, counters, Goto
  <2>9. ASSUME NEW c \in Tasks, Receive(c) PROVE TypeInv'
    BY <2>0, <2>9 DEF Receive, TypeInv, TypeOK, RolesOK, counters, Goto
  <2>10. ASSUME NEW c \in Tasks, StartRit(c) PROVE TypeInv'
    BY <2>0, <2>10 DEF StartRit, TypeInv, TypeOK, RolesOK, counters, TimerState, Goto
  <2>11. CASE Pause
    BY <2>0, <2>11 DEF Pause, TypeInv, TypeOK, RolesOK, TimerState, Elapse, Lapse
  <2>12. CASE UNCHANGED vars
    BY <2>0, <2>12 DEF vars, counters, TypeInv, TypeOK, RolesOK
  <2>13. QED
    BY <1>2, <2>1, <2>2, <2>3, <2>4, <2>5, <2>6, <2>7, <2>8, <2>9, <2>10, <2>11, <2>12 DEF Next
<1>3. QED
  BY <1>1, <1>2, PTL DEF Spec

\* A DTCP channel's state always has the type its declarations say.
THEOREM TypeCorrect == Spec => []TypeOK
<1>1. TypeInv => TypeOK
  BY DEF TypeInv
<1>2. QED
  BY <1>1, TypeInvariant, PTL

-----------------------------------------------------------------------------
(***************************************************************************)
(* Sequence numbers.                                                       *)
(***************************************************************************)

\* How far the counter is ahead of the number of a packet taken less than a
\* cycle ago.  SeqUnique is not inductive without it: nothing else relates the
\* counter, which wraps, to the numbers already used.
Tracks(p) ==
    /\ p.nth < taken
    /\ taken - p.nth <= SeqMod =>
           \/ seq_num - p.seq_num = taken - p.nth
           \/ seq_num - p.seq_num = taken - p.nth - SeqMod

SeqInv ==
    /\ \A i \in DOMAIN wire : Tracks(wire[i])
    /\ \A c \in Holders : Tracks(packet[c])
    /\ SeqUnique

\* fetch_add keeps track of every number taken before, and the number it
\* returns differs from those of the last cycle.
LEMMA TakeTracks ==
    ASSUME TypeInv, NEW c \in Tasks, TakeNumber(c), NEW p \in Packet, Tracks(p)
    PROVE  Tracks(p)' /\ Apart(p, packet'[c])
<1>1. /\ SeqMod \in Nat \ {0} /\ seq_num \in 0..(SeqMod - 1) /\ taken \in Nat
      /\ p.nth \in Nat /\ p.seq_num \in 0..(SeqMod - 1)
  BY DtcpAssumption DEF TypeInv, TypeOK, Packet
<1>2. /\ taken' = taken + 1
      /\ seq_num' = IF seq_num + 1 = SeqMod THEN 0 ELSE seq_num + 1
  BY <1>1, Wrap DEF TakeNumber
<1>3. Tracks(p)'
  BY <1>1, <1>2 DEF Tracks
<1>4. packet'[c].seq_num = seq_num /\ packet'[c].nth = taken
  BY DEF TakeNumber, TypeInv, TypeOK, Packet
<1>5. Apart(p, packet'[c])
  BY <1>1, <1>4 DEF Tracks, Apart
<1>6. QED
  BY <1>3, <1>5

\* Being a cycle apart does not depend on which packet is named first.
LEMMA ApartSymmetric ==
    ASSUME NEW p, NEW q, Apart(p, q)
    PROVE  Apart(q, p)
BY DEF Apart

\* Whatever tasks send at once, and however often the 16-bit counter wraps, a
\* sequence number is used again only after every other one was used.
THEOREM SequenceNumbersUnique == Spec => []SeqUnique
<1>1. Init => SeqInv
  BY DEF Init, SeqInv, SeqUnique, Holders
<1>2. ASSUME TypeInv, SeqInv, [Next]_vars PROVE SeqInv'
  <2>0. /\ TypeOK /\ RolesOK /\ SeqUnique
        /\ \A i \in DOMAIN wire : Tracks(wire[i]) /\ wire[i] \in Packet
        /\ \A c \in Holders : Tracks(packet[c])
        /\ \A c \in Tasks : packet[c] \in Packet
    BY <1>2 DEF TypeInv, SeqInv, TypeOK
  <2>1. ASSUME NEW c \in Tasks, TakeNumber(c) PROVE SeqInv'
    <3>1. /\ wire' = wire
          /\ \A d \in Tasks \ {c} : packet'[d] = packet[d] /\ pc'[d] = pc[d]
          /\ pc[c] = "number" /\ pc'[c] = "transmit"
      BY <2>0, <2>1 DEF TakeNumber, TypeOK, Goto
    <3>2. Holders' = Holders \cup {c} /\ c \notin Holders
      BY <3>1 DEF Holders
    <3>3. \A i \in DOMAIN wire : Tracks(wire[i])' /\ Apart(wire[i], packet'[c])
      <4>1. SUFFICES ASSUME NEW i \in DOMAIN wire
                     PROVE  Tracks(wire[i])' /\ Apart(wire[i], packet'[c])
        OBVIOUS
      <4> DEFINE p == wire[i]
      <4>2. p \in Packet /\ Tracks(p)
        BY <2>0
      <4>3. taken' = taken + 1 /\ wire'[i] = p
        BY <2>1, <3>1 DEF TakeNumber
      <4>4. QED
        BY <1>2, <2>1, <3>1, <4>2, <4>3, TakeTracks DEF Tracks
    <3>4. \A d \in Holders : Tracks(packet[d])' /\ Apart(packet[d], packet'[c])
      BY <1>2, <2>0, <2>1, <3>1, <3>2, TakeTracks DEF Tracks, Holders
    <3>5. Tracks(packet[c])'
      <4>1. packet'[c].seq_num = seq_num /\ packet'[c].nth = taken
        BY <2>0, <2>1 DEF TakeNumber, TypeOK, Packet
      <4>2. /\ SeqMod \in Nat \ {0} /\ seq_num \in 0..(SeqMod - 1) /\ taken \in Nat
            /\ taken' = taken + 1
            /\ seq_num' = IF seq_num + 1 = SeqMod THEN 0 ELSE seq_num + 1
        BY <2>0, <2>1, DtcpAssumption, Wrap DEF TakeNumber, TypeOK
      <4>3. QED
        BY <4>1, <4>2 DEF Tracks
    <3>6. SeqUnique'
      BY <2>0, <3>1, <3>2, <3>3, <3>4, ApartSymmetric DEF SeqUnique, Holders
    <3>7. QED
      BY <3>1, <3>2, <3>3, <3>4, <3>5, <3>6 DEF SeqInv
  <2>2. ASSUME NEW c \in Tasks, Transmit(c) PROVE SeqInv'
    <3>1. /\ taken' = taken /\ seq_num' = seq_num
          /\ wire' = Append(wire, packet[c])
          /\ \A d \in Tasks \ {c} : packet'[d] = packet[d] /\ pc'[d] = pc[d]
          /\ pc[c] = "transmit" /\ pc'[c] = "start_sit"
      BY <2>0, <2>2 DEF Transmit, TypeOK, Goto
    <3>2. Holders' = Holders \ {c} /\ c \in Holders
      BY <3>1 DEF Holders
    <3>3. /\ DOMAIN wire' = DOMAIN wire \cup {Len(wire) + 1}
          /\ \A i \in DOMAIN wire : wire'[i] = wire[i] /\ i # Len(wire) + 1
          /\ wire'[Len(wire) + 1] = packet[c]
      BY <2>0, <3>1 DEF TypeOK
    <3>4. QED
      BY <2>0, <3>1, <3>2, <3>3, ApartSymmetric DEF SeqInv, SeqUnique, Holders, Tracks
  <2>3. ASSUME UNCHANGED <<taken, seq_num, wire>>,
               \A c \in Tasks : pc'[c] = "transmit" => pc[c] = "transmit" /\ packet'[c] = packet[c]
        PROVE  SeqInv'
    <3>1. Holders' \subseteq Holders /\ \A c \in Holders' : packet'[c] = packet[c]
      BY <2>3 DEF Holders
    <3>2. QED
      BY <2>0, <2>3, <3>1 DEF SeqInv, SeqUnique, Tracks
  <2>4. ASSUME NEW c \in Tasks,
               \/ StopSit(c) \/ SwapDrf(c) \/ TransmitFails(c) \/ StartSit(c)
               \/ StopRit(c) \/ StoreDrf(c) \/ Receive(c) \/ StartRit(c)
        PROVE  SeqInv'
    BY <2>0, <2>3, <2>4 DEF TypeOK, Goto, StopSit, SwapDrf, TransmitFails, StartSit, StopRit,
       StoreDrf, Receive, StartRit
  <2>5. CASE Pause \/ UNCHANGED vars
    BY <2>3, <2>5 DEF Pause, vars
  <2>6. QED
    BY <1>2, <2>1, <2>2, <2>4, <2>5 DEF Next
<1>3. SeqInv => SeqUnique
  BY DEF SeqInv
<1>4. QED
  BY <1>1, <1>2, <1>3, TypeInvariant, PTL DEF Spec

-----------------------------------------------------------------------------
(***************************************************************************)
(* Silence.                                                                *)
(***************************************************************************)

\* With no send in progress the sender timer runs, and it has lapsed when the
\* channel has been silent; a sender that found it lapsed carries that on to
\* its packet.  SilenceMarked alone says nothing about the timer.
TimerOK ==
    /\ silent => wire # <<>>
    /\ NoneSending /\ wire # <<>> => sit # "off"
    /\ NoneSending /\ silent => sit = "lapsed"

CarriedOn ==
    \A c \in Tasks :
        /\ pc[c] = "swap" /\ packet[c].late => expired[c]
        /\ pc[c] \in {"number", "transmit"} /\ packet[c].late => packet[c].drf

SilenceInv == failures = 0 => TimerOK /\ CarriedOn /\ SilenceMarked

\* The first packet after a silence longer than the sender interval starts a
\* run, for any number of tasks that send and receive on the channel at once,
\* as long as no send fails: the last send to return leaves the timer running.
THEOREM SilenceStartsRun == Spec => []SilenceMarked
<1>1. Init => SilenceInv
  BY DEF Init, SilenceInv, TimerOK, CarriedOn, SilenceMarked
<1>2. ASSUME TypeInv, TypeInv', SilenceInv, [Next]_vars PROVE SilenceInv'
  <2>0. SUFFICES ASSUME failures' = 0, failures = 0 PROVE TimerOK' /\ CarriedOn' /\ SilenceMarked'
    <3>1. failures' # 0 \/ failures = 0
      <4>1. ASSUME NEW c \in Tasks, TransmitFails(c) PROVE failures' # 0
        BY <1>2, <4>1 DEF TransmitFails, TypeInv, TypeOK
      <4>2. ASSUME NEW c \in Tasks,
                   \/ StopSit(c) \/ SwapDrf(c) \/ TakeNumber(c) \/ Transmit(c) \/ StartSit(c)
                   \/ StopRit(c) \/ StoreDrf(c) \/ Receive(c) \/ StartRit(c)
            PROVE  failures' = failures
        BY <4>2 DEF StopSit, SwapDrf, TakeNumber, Transmit, StartSit, StopRit, StoreDrf, Receive,
           StartRit, counters
      <4>3. Pause \/ UNCHANGED vars => failures' = failures
        BY DEF Pause, vars, counters
      <4>4. QED
        BY <1>2, <4>1, <4>2, <4>3 DEF Next
    <3>2. QED
      BY <3>1 DEF SilenceInv
  <2>t. TypeOK /\ RolesOK /\ TypeOK' /\ RolesOK' /\ TimerOK /\ CarriedOn /\ SilenceMarked
    BY <1>2, <2>0 DEF TypeInv, SilenceInv
  <2>1. ASSUME NEW c \in Tasks, StopSit(c) PROVE TimerOK' /\ CarriedOn' /\ SilenceMarked'
    <3>1. /\ c \in Senders /\ pc'[c] = "swap"
          /\ expired'[c] = (sit = "lapsed")
          /\ \A d \in Tasks \ {c} : pc'[d] = pc[d] /\ packet'[d] = packet[d]
                                    /\ expired'[d] = expired[d]
          /\ wire' = wire /\ silent' = silent
      BY <2>t, <2>1 DEF StopSit, TypeOK, Goto
    <3>2. packet'[c].late => silent /\ NoneSending
      BY <2>t, <2>1 DEF StopSit, TypeOK, Blank
    <3>3. ~ NoneSending'
      BY <3>1 DEF NoneSending
    <3>4. TimerOK'
      BY <2>t, <3>1, <3>3 DEF TimerOK
    <3>5. CarriedOn'
      BY <2>t, <3>1, <3>2 DEF CarriedOn, TimerOK
    <3>6. QED
      BY <2>t, <3>1, <3>4, <3>5, <2>0 DEF SilenceMarked
  <2>2. ASSUME NEW c \in Tasks, SwapDrf(c) PROVE TimerOK' /\ CarriedOn' /\ SilenceMarked'
    <3>1. /\ c \in Senders /\ pc[c] = "swap" /\ pc'[c] = "number"
          /\ packet'[c] = [packet[c] EXCEPT !.drf = set_drf \/ expired[c]]
          /\ \A d \in Tasks \ {c} : pc'[d] = pc[d] /\ packet'[d] = packet[d]
                                    /\ expired'[d] = expired[d]
          /\ wire' = wire /\ silent' = silent /\ sit' = sit
      BY <2>t, <2>2 DEF SwapDrf, TypeOK, RolesOK, Goto
    <3>2. packet'[c].late = packet[c].late /\ (expired[c] => packet'[c].drf)
      BY <2>t, <3>1 DEF TypeOK, Packet
    <3>3. ~ NoneSending'
      BY <3>1 DEF NoneSending
    <3>4. TimerOK'
      BY <2>t, <3>1, <3>3 DEF TimerOK
    <3>5. CarriedOn'
      BY <2>t, <3>1, <3>2 DEF CarriedOn
    <3>6. QED
      BY <2>t, <3>1, <3>4, <3>5, <2>0 DEF SilenceMarked
  <2>3. ASSUME NEW c \in Tasks, TakeNumber(c) PROVE TimerOK' /\ CarriedOn' /\ SilenceMarked'
    <3>1. /\ c \in Senders /\ pc[c] = "number" /\ pc'[c] = "transmit"
          /\ packet'[c] = [packet[c] EXCEPT !.seq_num = seq_num, !.nth = taken]
          /\ \A d \in Tasks \ {c} : pc'[d] = pc[d] /\ packet'[d] = packet[d]
          /\ wire' = wire /\ silent' = silent /\ sit' = sit /\ expired' = expired
      BY <2>t, <2>3 DEF TakeNumber, TypeOK, RolesOK, Goto
    <3>2. packet'[c].late = packet[c].late /\ packet'[c].drf = packet[c].drf
      BY <2>t, <3>1 DEF TypeOK, Packet
    <3>3. ~ NoneSending'
      BY <3>1 DEF NoneSending
    <3>4. TimerOK'
      BY <2>t, <3>1, <3>3 DEF TimerOK
    <3>5. CarriedOn'
      BY <2>t, <3>1, <3>2 DEF CarriedOn
    <3>6. QED
      BY <2>t, <3>1, <3>4, <3>5, <2>0 DEF SilenceMarked
  <2>4. ASSUME NEW c \in Tasks, Transmit(c) PROVE TimerOK' /\ CarriedOn' /\ SilenceMarked'
    <3>1. /\ c \in Senders /\ pc[c] = "transmit" /\ pc'[c] = "start_sit"
          /\ \A d \in Tasks \ {c} : pc'[d] = pc[d] /\ packet'[d] = packet[d]
          /\ wire' = Append(wire, packet[c]) /\ silent' = FALSE /\ expired' = expired
      BY <2>t, <2>4 DEF Transmit, TypeOK, RolesOK, Goto
    <3>2. /\ DOMAIN wire' = DOMAIN wire \cup {Len(wire) + 1}
          /\ \A i \in DOMAIN wire : wire'[i] = wire[i]
          /\ wire'[Len(wire) + 1] = packet[c]
      BY <2>t, <3>1 DEF TypeOK
    <3>3. ~ NoneSending'
      BY <3>1 DEF NoneSending
    <3>4. TimerOK'
      BY <3>1, <3>3 DEF TimerOK
    <3>5. CarriedOn'
      BY <2>t, <3>1 DEF CarriedOn
    <3>6. SilenceMarked'
      BY <2>t, <2>0, <3>1, <3>2 DEF SilenceMarked, CarriedOn
    <3>7. QED
      BY <3>4, <3>5, <3>6
  <2>5. ASSUME NEW c \in Tasks, TransmitFails(c) PROVE FALSE
    BY <2>t, <2>0, <2>5 DEF TransmitFails, TypeOK
  <2>6. ASSUME NEW c \in Tasks, StartSit(c) PROVE TimerOK' /\ CarriedOn' /\ SilenceMarked'
    <3>1. /\ sit' = "running" /\ silent' = FALSE
          /\ UNCHANGED <<wire, packet, expired>>
          /\ \A d \in Tasks : pc'[d] = pc[d] \/ pc'[d] = "idle"
      BY <2>t, <2>6 DEF StartSit, TypeOK, Goto
    <3>2. QED
      BY <2>t, <2>0, <3>1 DEF TimerOK, CarriedOn, SilenceMarked
  <2>7. ASSUME NEW c \in Tasks, StopRit(c) \/ StoreDrf(c) \/ Receive(c) \/ StartRit(c)
        PROVE  TimerOK' /\ CarriedOn' /\ SilenceMarked'
    <3>1. /\ UNCHANGED <<wire, packet, sit, silent>>
          /\ c \notin Senders
          /\ pc'[c] \notin {"swap", "number", "transmit"}
          /\ \A d \in Tasks \ {c} : pc'[d] = pc[d] /\ expired'[d] = expired[d]
      BY <2>t, <2>7, DtcpAssumption
         DEF StopRit, StoreDrf, Receive, StartRit, TypeOK, RolesOK, Goto, Tasks
    <3>2. NoneSending' = NoneSending
      BY <3>1 DEF NoneSending, Tasks
    <3>3. QED
      BY <2>t, <2>0, <3>1, <3>2 DEF TimerOK, CarriedOn, SilenceMarked
  <2>8. CASE Pause
    BY <2>t, <2>0, <2>8 DEF Pause, Elapse, TimerOK, CarriedOn, SilenceMarked, NoneSending, TypeOK,
       TimerState
  <2>9. CASE UNCHANGED vars
    BY <2>t, <2>9 DEF vars, TimerOK, CarriedOn, SilenceMarked, NoneSending, counters
  <2>10. QED
    BY <1>2, <2>1, <2>2, <2>3, <2>4, <2>5, <2>6, <2>7, <2>8, <2>9 DEF Next
<1>3. SilenceInv => SilenceMarked
  BY DEF SilenceInv, SilenceMarked
<1>4. QED
  BY <1>1, <1>2, <1>3, TypeInvariant, PTL DEF Spec

-----------------------------------------------------------------------------
(***************************************************************************)
(* Causes.  A lapse of a timer is a token: it is in the timer until a send *)
(* or a recv stops it, in that task's local until it is passed on to the   *)
(* shared flag or to a packet, and it may be lost but never copied.        *)
(***************************************************************************)
Marked  == {i \in DOMAIN wire : wire[i].drf}
Pending == {c \in Tasks : packet[c].drf}
Found   == {c \in Tasks : expired[c]}

Bit(b) == IF b THEN 1 ELSE 0

Tokens == Bit(set_drf) + Bit(sit = "lapsed") + Bit(rit = "lapsed")

\* RunsHaveCause alone says nothing of the tokens that are not on the wire yet.
CauseInv ==
    /\ IsFiniteSet(Marked) /\ IsFiniteSet(Pending) /\ IsFiniteSet(Found)
    /\ Cardinality(Marked) + Cardinality(Pending) + Cardinality(Found) + Tokens
           <= 1 + lapses

\* A set that loses elements is not larger.
LEMMA Fewer ==
    ASSUME NEW S, IsFiniteSet(S), NEW T, T \subseteq S
    PROVE  /\ IsFiniteSet(T) /\ Cardinality(S) \in Nat /\ Cardinality(T) \in Nat
           /\ Cardinality(T) <= Cardinality(S)
<1>1. IsFiniteSet(T) /\ Cardinality(T) <= Cardinality(S)
  BY FS_Subset
<1>2. Cardinality(S) \in Nat /\ Cardinality(T) \in Nat
  BY <1>1, FS_CardinalityType
<1>3. QED
  BY <1>1, <1>2

\* A set that gains at most one element is at most one larger.
LEMMA OneMore ==
    ASSUME NEW S, IsFiniteSet(S), NEW x, NEW T, T \subseteq S \cup {x}
    PROVE  /\ IsFiniteSet(T) /\ Cardinality(S) \in Nat /\ Cardinality(T) \in Nat
           /\ Cardinality(T) <= Cardinality(S) + 1
<1>1. IsFiniteSet(S \cup {x}) /\ Cardinality(S) \in Nat
  BY FS_AddElement, FS_CardinalityType
<1>2. Cardinality(S \cup {x}) <= Cardinality(S) + 1
  BY <1>1, FS_AddElement
<1>3. /\ IsFiniteSet(T) /\ Cardinality(S \cup {x}) \in Nat /\ Cardinality(T) \in Nat
      /\ Cardinality(T) <= Cardinality(S \cup {x})
  BY <1>1, Fewer
<1>4. QED
  BY <1>1, <1>2, <1>3

\* A set that loses the element x is at least one smaller.
LEMMA OneLess ==
    ASSUME NEW S, IsFiniteSet(S), NEW x \in S, NEW T, T \subseteq S \ {x}
    PROVE  /\ IsFiniteSet(T) /\ Cardinality(S) \in Nat /\ Cardinality(T) \in Nat
           /\ Cardinality(T) <= Cardinality(S) - 1
<1>1. IsFiniteSet(S \ {x}) /\ Cardinality(S \ {x}) = Cardinality(S) - 1
  BY FS_RemoveElement
<1>2. Cardinality(S) \in Nat
  BY FS_CardinalityType
<1>3. /\ IsFiniteSet(T) /\ Cardinality(T) \in Nat
      /\ Cardinality(T) <= Cardinality(S \ {x})
  BY <1>1, Fewer
<1>4. QED
  BY <1>1, <1>2, <1>3

\* A task that stops a timer takes its lapse over, or there was none.
LEMMA StopKeepsCauses ==
    ASSUME TypeInv, CauseInv, NEW c \in Tasks, NEW b \in BOOLEAN,
           expired' = [expired EXCEPT ![c] = b],
           Marked' \subseteq Marked, Pending' \subseteq Pending,
           Tokens' + Bit(b) <= Tokens, Tokens' \in Nat, UNCHANGED lapses
    PROVE  CauseInv'
<1>1. /\ IsFiniteSet(Marked) /\ IsFiniteSet(Pending) /\ IsFiniteSet(Found)
      /\ Cardinality(Marked) + Cardinality(Pending) + Cardinality(Found) + Tokens
             <= 1 + lapses
      /\ lapses \in Nat /\ Tokens \in Nat
  BY DEF CauseInv, TypeInv, TypeOK, Tokens, Bit
<1>2. /\ IsFiniteSet(Marked') /\ Cardinality(Marked) \in Nat /\ Cardinality(Marked') \in Nat
      /\ Cardinality(Marked') <= Cardinality(Marked)
  BY <1>1, Fewer
<1>3. /\ IsFiniteSet(Pending') /\ Cardinality(Pending) \in Nat /\ Cardinality(Pending') \in Nat
      /\ Cardinality(Pending') <= Cardinality(Pending)
  BY <1>1, Fewer
<1>4. /\ IsFiniteSet(Found') /\ Cardinality(Found) \in Nat /\ Cardinality(Found') \in Nat
      /\ Cardinality(Found') <= Cardinality(Found) + Bit(b)
  <2>1. CASE b
    <3>1. Found' \subseteq Found \cup {c}
      BY DEF Found, TypeInv, TypeOK
    <3>2. QED
      BY <1>1, <2>1, <3>1, OneMore DEF Bit
  <2>2. CASE ~ b
    <3>1. Found' \subseteq Found
      BY <2>2 DEF Found, TypeInv, TypeOK
    <3>2. QED
      BY <1>1, <2>2, <3>1, Fewer DEF Bit
  <2>3. QED
    BY <2>1, <2>2
<1>5. Bit(b) \in Nat
  BY DEF Bit
<1>6. Cardinality(Marked') + Cardinality(Pending') + Cardinality(Found') + Tokens' <= 1 + lapses'
  BY <1>1, <1>2, <1>3, <1>4, <1>5
<1>7. QED
  BY <1>2, <1>3, <1>4, <1>6 DEF CauseInv

\* The numbers that CauseInv adds up.
Counts(m, p, f, t, w) ==
    /\ m = Cardinality(Marked) /\ p = Cardinality(Pending) /\ f = Cardinality(Found)
    /\ t = Tokens /\ w = lapses

\* Each of them is a natural number.
LEMMA CountsExist ==
    ASSUME TypeInv, CauseInv
    PROVE  \E m, p, f, t, w \in Nat : Counts(m, p, f, t, w) /\ m + p + f + t <= 1 + w
<1>1. /\ Cardinality(Marked) \in Nat /\ Cardinality(Pending) \in Nat
      /\ Cardinality(Found) \in Nat
  BY FS_CardinalityType DEF CauseInv
<1>2. Tokens \in Nat /\ lapses \in Nat
  BY DEF Tokens, Bit, TypeInv, TypeOK
<1>3. Cardinality(Marked) + Cardinality(Pending) + Cardinality(Found) + Tokens <= 1 + lapses
  BY DEF CauseInv
<1>4. QED
  BY <1>1, <1>2, <1>3 DEF Counts

\* A step that makes no token but for a lapse, and leaves the sets as they are or
\* smaller.
LEMMA LossKeepsCauses ==
    ASSUME TypeInv, CauseInv,
           Marked' \subseteq Marked, Pending' \subseteq Pending, Found' \subseteq Found,
           Tokens' \in Nat, lapses' \in Nat,
           Tokens' + lapses <= Tokens + lapses'
    PROVE  CauseInv'
<1>1. /\ IsFiniteSet(Marked) /\ IsFiniteSet(Pending) /\ IsFiniteSet(Found)
      /\ Cardinality(Marked) + Cardinality(Pending) + Cardinality(Found) + Tokens
             <= 1 + lapses
      /\ lapses \in Nat /\ Tokens \in Nat
  BY DEF CauseInv, TypeInv, TypeOK, Tokens, Bit
<1>2. /\ IsFiniteSet(Marked') /\ Cardinality(Marked) \in Nat /\ Cardinality(Marked') \in Nat
      /\ Cardinality(Marked') <= Cardinality(Marked)
  BY <1>1, Fewer
<1>3. /\ IsFiniteSet(Pending') /\ Cardinality(Pending) \in Nat /\ Cardinality(Pending') \in Nat
      /\ Cardinality(Pending') <= Cardinality(Pending)
  BY <1>1, Fewer
<1>4. /\ IsFiniteSet(Found') /\ Cardinality(Found) \in Nat /\ Cardinality(Found') \in Nat
      /\ Cardinality(Found') <= Cardinality(Found)
  BY <1>1, Fewer
<1>5. PICK m, p, f, t, w \in Nat : Counts(m, p, f, t, w) /\ m + p + f + t <= 1 + w
  BY CountsExist
<1>6. PICK m1, p1, f1, t1, w1 \in Nat :
          /\ m1 = Cardinality(Marked') /\ p1 = Cardinality(Pending') /\ f1 = Cardinality(Found')
          /\ t1 = Tokens' /\ w1 = lapses'
  BY <1>2, <1>3, <1>4
<1>7. m1 <= m /\ p1 <= p /\ f1 <= f /\ t1 + w <= t + w1
  BY <1>2, <1>3, <1>4, <1>5, <1>6 DEF Counts
<1>8. m1 + p1 + f1 + t1 <= 1 + w1
  BY <1>5, <1>7
<1>9. QED
  BY <1>2, <1>3, <1>4, <1>6, <1>8 DEF CauseInv

\* In particular, a step in which no timer lapses.
LEMMA NoLapseKeepsCauses ==
    ASSUME TypeInv, CauseInv,
           Marked' \subseteq Marked, Pending' \subseteq Pending, Found' \subseteq Found,
           Tokens' \in Nat, Tokens' <= Tokens, UNCHANGED lapses
    PROVE  CauseInv'
<1>1. lapses \in Nat /\ Tokens \in Nat
  BY DEF TypeInv, TypeOK, Tokens, Bit
<1>a. \A a, b, n \in Nat : a <= b => a + n <= b + n
  OBVIOUS
<1>2. PICK t, u, w \in Nat : /\ t = Tokens /\ u = Tokens' /\ u <= t
                              /\ w = lapses /\ w = lapses'
  BY <1>1
<1>3. u + w <= t + w
  BY <1>a, <1>2
<1>4. QED
  BY <1>1, <1>2, <1>3, LossKeepsCauses

\* swap(false) || expired: the packet takes over one token, of one or two.
LEMMA SwapKeepsCauses ==
    ASSUME TypeInv, CauseInv, NEW c \in Tasks, SwapDrf(c)
    PROVE  CauseInv'
<1>1. /\ IsFiniteSet(Marked) /\ IsFiniteSet(Pending) /\ IsFiniteSet(Found)
      /\ Cardinality(Marked) + Cardinality(Pending) + Cardinality(Found) + Tokens
             <= 1 + lapses
      /\ lapses \in Nat /\ Tokens \in Nat
  BY DEF CauseInv, TypeInv, TypeOK, Tokens, Bit
<1>2. Marked' = Marked /\ lapses' = lapses
  BY DEF SwapDrf, Marked, counters
<1>3. Found' \subseteq Found \ {c}
  BY DEF SwapDrf, Found, TypeInv, TypeOK
<1>4. Tokens' \in Nat /\ Tokens' <= Tokens /\ (set_drf => Tokens' + 1 = Tokens)
  BY DEF SwapDrf, Tokens, Bit
<1>5. packet' = [packet EXCEPT ![c].drf = set_drf \/ expired[c]] /\ packet \in [Tasks -> Packet]
  BY DEF SwapDrf, TypeInv, TypeOK
<1>6. Cardinality(Marked) \in Nat /\ Cardinality(Pending) \in Nat /\ Cardinality(Found) \in Nat
  BY <1>1, FS_CardinalityType
<1>7. CASE ~ set_drf /\ ~ expired[c]
  <2>1. Pending' \subseteq Pending
    BY <1>5, <1>7 DEF Pending, Packet
  <2>2. Found' \subseteq Found
    BY <1>3
  <2>3. QED
    BY <1>2, <1>4, <2>1, <2>2, NoLapseKeepsCauses
<1>8. CASE set_drf \/ expired[c]
  <2>1. Pending' \subseteq Pending \cup {c}
    BY <1>5 DEF Pending
  <2>2. /\ IsFiniteSet(Pending') /\ Cardinality(Pending') \in Nat
        /\ Cardinality(Pending') <= Cardinality(Pending) + 1
    BY <1>1, <2>1, OneMore
  <2>3. /\ IsFiniteSet(Found') /\ Cardinality(Found') \in Nat
        /\ Cardinality(Found') + Tokens' + 1 <= Cardinality(Found) + Tokens
    <3>1. CASE expired[c]
      <4>1. c \in Found
        BY <3>1 DEF Found
      <4>2. /\ IsFiniteSet(Found') /\ Cardinality(Found') \in Nat
            /\ Cardinality(Found') <= Cardinality(Found) - 1
        BY <1>1, <1>3, <4>1, OneLess
      <4>3. QED
        BY <1>1, <1>4, <1>6, <4>2
    <3>2. CASE set_drf
      <4>1. /\ IsFiniteSet(Found') /\ Cardinality(Found') \in Nat
            /\ Cardinality(Found') <= Cardinality(Found)
        BY <1>1, <1>3, Fewer
      <4>2. Tokens' + 1 = Tokens
        BY <1>4, <3>2
      <4>3. QED
        BY <1>4, <1>6, <4>1, <4>2
    <3>3. QED
      BY <1>8, <3>1, <3>2
  <2>4. Cardinality(Marked') + Cardinality(Pending') + Cardinality(Found') + Tokens'
            <= 1 + lapses'
    BY <1>1, <1>2, <1>4, <1>6, <2>2, <2>3
  <2>5. QED
    BY <1>1, <1>2, <2>2, <2>3, <2>4 DEF CauseInv
<1>9. QED
  BY <1>7, <1>8

\* The token of a packet goes to the wire with it.
LEMMA TransmitKeepsCauses ==
    ASSUME TypeInv, CauseInv, NEW c \in Tasks, Transmit(c)
    PROVE  CauseInv'
<1>1. /\ IsFiniteSet(Marked) /\ IsFiniteSet(Pending) /\ IsFiniteSet(Found)
      /\ Cardinality(Marked) + Cardinality(Pending) + Cardinality(Found) + Tokens
             <= 1 + lapses
      /\ lapses \in Nat /\ Tokens \in Nat
  BY DEF CauseInv, TypeInv, TypeOK, Tokens, Bit
<1>2. Found' = Found /\ lapses' = lapses /\ Tokens' = Tokens
  BY DEF Transmit, Found, counters, Tokens
<1>3. /\ wire' = Append(wire, packet[c]) /\ wire \in Seq(Packet)
      /\ packet' = [packet EXCEPT ![c] = Blank] /\ packet \in [Tasks -> Packet]
  BY DEF Transmit, TypeInv, TypeOK
<1>4. /\ DOMAIN wire' = DOMAIN wire \cup {Len(wire) + 1}
      /\ \A i \in DOMAIN wire : wire'[i] = wire[i]
      /\ wire'[Len(wire) + 1] = packet[c]
  BY <1>3
<1>5. Pending' \subseteq Pending \ {c}
  BY <1>3 DEF Pending, Blank
<1>6. Cardinality(Marked) \in Nat /\ Cardinality(Pending) \in Nat /\ Cardinality(Found) \in Nat
  BY <1>1, FS_CardinalityType
<1>7. CASE ~ packet[c].drf
  <2>1. Marked' \subseteq Marked
    BY <1>4, <1>7 DEF Marked
  <2>2. Pending' \subseteq Pending /\ Found' \subseteq Found
    BY <1>2, <1>5
  <2>3. QED
    BY <1>1, <1>2, <2>1, <2>2, NoLapseKeepsCauses
<1>8. CASE packet[c].drf
  <2>1. Marked' \subseteq Marked \cup {Len(wire) + 1}
    BY <1>4 DEF Marked
  <2>2. /\ IsFiniteSet(Marked') /\ Cardinality(Marked') \in Nat
        /\ Cardinality(Marked') <= Cardinality(Marked) + 1
    BY <1>1, <2>1, OneMore
  <2>3. c \in Pending
    BY <1>8 DEF Pending
  <2>4. /\ IsFiniteSet(Pending') /\ Cardinality(Pending') \in Nat
        /\ Cardinality(Pending') <= Cardinality(Pending) - 1
    BY <1>1, <1>5, <2>3, OneLess
  <2>5. Cardinality(Marked') + Cardinality(Pending') + Cardinality(Found') + Tokens'
            <= 1 + lapses'
    BY <1>1, <1>2, <1>6, <2>2, <2>4
  <2>6. QED
    BY <1>1, <1>2, <2>2, <2>4, <2>5 DEF CauseInv
<1>9. QED
  BY <1>7, <1>8

\* store(expired): the shared flag takes over the token of the receiver.
LEMMA StoreKeepsCauses ==
    ASSUME TypeInv, CauseInv, NEW c \in Tasks, StoreDrf(c)
    PROVE  CauseInv'
<1>1. /\ IsFiniteSet(Marked) /\ IsFiniteSet(Pending) /\ IsFiniteSet(Found)
      /\ Cardinality(Marked) + Cardinality(Pending) + Cardinality(Found) + Tokens
             <= 1 + lapses
      /\ lapses \in Nat /\ Tokens \in Nat
  BY DEF CauseInv, TypeInv, TypeOK, Tokens, Bit
<1>2. Marked' = Marked /\ Pending' = Pending /\ lapses' = lapses
  BY DEF StoreDrf, Marked, Pending, counters
<1>3. Found' \subseteq Found \ {c}
  BY DEF StoreDrf, Found, TypeInv, TypeOK
<1>4. Tokens' \in Nat /\ Tokens' <= Tokens + Bit(expired[c])
  BY DEF StoreDrf, Tokens, Bit
<1>5. Cardinality(Marked) \in Nat /\ Cardinality(Pending) \in Nat /\ Cardinality(Found) \in Nat
  BY <1>1, FS_CardinalityType
<1>6. CASE ~ expired[c]
  <2>1. Tokens' <= Tokens
    BY <1>1, <1>4, <1>6 DEF Bit
  <2>2. Found' \subseteq Found
    BY <1>3
  <2>3. QED
    BY <1>1, <1>2, <1>4, <2>1, <2>2, NoLapseKeepsCauses
<1>7. CASE expired[c]
  <2>1. c \in Found
    BY <1>7 DEF Found
  <2>2. /\ IsFiniteSet(Found') /\ Cardinality(Found') \in Nat
        /\ Cardinality(Found') <= Cardinality(Found) - 1
    BY <1>1, <1>3, <2>1, OneLess
  <2>3. Tokens' <= Tokens + 1
    BY <1>4, <1>7 DEF Bit
  <2>4. Cardinality(Marked') + Cardinality(Pending') + Cardinality(Found') + Tokens'
            <= 1 + lapses'
    BY <1>1, <1>2, <1>4, <1>5, <2>2, <2>3
  <2>5. QED
    BY <1>1, <1>2, <2>2, <2>4 DEF CauseInv
<1>8. QED
  BY <1>6, <1>7

\* No run is started without a cause: the data run flags on the wire are at most
\* one more than the lapses of the two timers, however many sends and receives
\* race for a lapse.
THEOREM RunsBounded == Spec => []RunsHaveCause
<1>1. ASSUME Init PROVE CauseInv
  <2>1. Marked = {} /\ Pending = {} /\ Found = {}
    BY <1>1 DEF Init, Marked, Pending, Found, Blank
  <2>2. Tokens = 1 /\ lapses = 0
    BY <1>1 DEF Init, Tokens, Bit
  <2>3. IsFiniteSet({}) /\ Cardinality({}) = 0
    BY FS_EmptySet
  <2>4. QED
    BY <2>1, <2>2, <2>3 DEF CauseInv
<1>2. ASSUME TypeInv, CauseInv, [Next]_vars PROVE CauseInv'
  <2>0. TypeOK /\ lapses \in Nat
    BY <1>2 DEF TypeInv, TypeOK
  <2>1. ASSUME NEW c \in Tasks, StopSit(c) PROVE CauseInv'
    <3>1. /\ expired' = [expired EXCEPT ![c] = (sit = "lapsed")]
          /\ Marked' \subseteq Marked /\ UNCHANGED lapses
      BY <2>1 DEF StopSit, Marked
    <3>2. Pending' \subseteq Pending
      BY <2>0, <2>1 DEF StopSit, Pending, TypeOK, Blank
    <3>3. Tokens' \in Nat /\ Tokens' + Bit(sit = "lapsed") <= Tokens
      BY <2>1 DEF StopSit, Tokens, Bit
    <3>4. (sit = "lapsed") \in BOOLEAN
      OBVIOUS
    <3>5. QED
      BY <1>2, <3>1, <3>2, <3>3, <3>4, StopKeepsCauses
  <2>2. ASSUME NEW c \in Tasks, StopRit(c) PROVE CauseInv'
    <3>1. /\ expired' = [expired EXCEPT ![c] = (rit = "lapsed")]
          /\ Marked' \subseteq Marked /\ Pending' \subseteq Pending /\ UNCHANGED lapses
      BY <2>2 DEF StopRit, Marked, Pending, counters
    <3>2. Tokens' \in Nat /\ Tokens' + Bit(rit = "lapsed") <= Tokens
      BY <2>2 DEF StopRit, Tokens, Bit
    <3>3. (rit = "lapsed") \in BOOLEAN
      OBVIOUS
    <3>4. QED
      BY <1>2, <3>1, <3>2, <3>3, StopKeepsCauses
  <2>3. ASSUME NEW c \in Tasks, TakeNumber(c) \/ TransmitFails(c) PROVE CauseInv'
    <3>1. Marked' \subseteq Marked /\ Found' \subseteq Found /\ lapses' = lapses
      BY <2>3 DEF TakeNumber, TransmitFails, Marked, Found, counters
    <3>2. Tokens' = Tokens /\ Tokens \in Nat
      BY <2>3 DEF TakeNumber, TransmitFails, Tokens, Bit
    <3>3. Pending' \subseteq Pending
      <4>1. packet \in [Tasks -> Packet]
        BY <2>0 DEF TypeOK
      <4>2. CASE TakeNumber(c)
        BY <4>1, <4>2 DEF TakeNumber, Pending, Packet
      <4>3. CASE TransmitFails(c)
        BY <4>1, <4>3 DEF TransmitFails, Pending, Blank
      <4>4. QED
        BY <2>3, <4>2, <4>3
    <3>4. Tokens' <= Tokens /\ Tokens' \in Nat
      BY <3>2
    <3>5. QED
      BY <1>2, <3>1, <3>3, <3>4, NoLapseKeepsCauses
  <2>4. ASSUME NEW c \in Tasks, StartSit(c) \/ Receive(c) \/ StartRit(c) PROVE CauseInv'
    <3>1. /\ Marked' \subseteq Marked /\ Pending' \subseteq Pending /\ Found' \subseteq Found
          /\ lapses' = lapses
      BY <2>4 DEF StartSit, Receive, StartRit, Marked, Pending, Found, counters
    <3>2. Tokens' <= Tokens /\ Tokens \in Nat /\ Tokens' \in Nat
      BY <2>4 DEF StartSit, Receive, StartRit, Tokens, Bit
    <3>3. QED
      BY <1>2, <3>1, <3>2, NoLapseKeepsCauses
  <2>5. CASE Pause
    <3>1. /\ Marked' \subseteq Marked /\ Pending' \subseteq Pending /\ Found' \subseteq Found
          /\ lapses' = lapses + Lapse(sit, sit') + Lapse(rit, rit')
      BY <2>5 DEF Pause, Marked, Pending, Found
    <3>2. Tokens \in Nat /\ Tokens' \in Nat /\ lapses' \in Nat
      BY <2>0, <3>1 DEF Tokens, Bit, Lapse
    <3>3. Bit(sit' = "lapsed") <= Bit(sit = "lapsed") + Lapse(sit, sit')
      BY <2>5 DEF Pause, Elapse, Bit, Lapse
    <3>4. Bit(rit' = "lapsed") <= Bit(rit = "lapsed") + Lapse(rit, rit')
      BY <2>5 DEF Pause, Elapse, Bit, Lapse
    <3>5. Tokens' + lapses <= Tokens + lapses'
      BY <2>0, <2>5, <3>1, <3>3, <3>4 DEF Pause, Tokens, Bit, Lapse
    <3>6. QED
      BY <1>2, <3>1, <3>2, <3>5, LossKeepsCauses
  <2>6. CASE UNCHANGED vars
    BY <1>2, <2>6 DEF vars, counters, CauseInv, Marked, Pending, Found, Tokens
  <2>7. QED
    BY <1>2, <2>1, <2>2, <2>3, <2>4, <2>5, <2>6, SwapKeepsCauses, TransmitKeepsCauses,
       StoreKeepsCauses DEF Next
<1>3. ASSUME TypeInv, CauseInv PROVE RunsHaveCause
  <2>1. Tokens \in Nat /\ lapses \in Nat
    BY <1>3 DEF Tokens, Bit, TypeInv, TypeOK
  <2>2. Cardinality(Marked) \in Nat /\ Cardinality(Pending) \in Nat /\ Cardinality(Found) \in Nat
    BY <1>3, FS_CardinalityType DEF CauseInv
  <2>3. Cardinality(Marked) <= 1 + lapses
    BY <1>3, <2>1, <2>2 DEF CauseInv
  <2>4. QED
    BY <2>3 DEF RunsHaveCause, Marked
<1>4. QED
  BY <1>1, <1>2, <1>3, TypeInvariant, PTL DEF Spec

================================================================================
