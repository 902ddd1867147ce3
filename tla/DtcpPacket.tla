------------------------------- MODULE DtcpPacket -------------------------------
(***************************************************************************)
(* The DTCP header, dtcp/src/packet.rs: a type byte, two bytes of sequence *)
(* number, and the payload.  The bytes of the number count to ByteBase,    *)
(* 256 in the code.                                                        *)
(***************************************************************************)
EXTENDS Integers, Sequences

CONSTANT ByteBase

\* set_ty of a Transfer packet: type 0 in the upper nibble, the flag below.
SetTy(drf) == IF drf THEN 1 ELSE 0

\* Faulty variant: the low byte first.
SetSeqNumLittle(n) == <<n % ByteBase, n \div ByteBase>>

\* set_seq_num: big endian.
SetSeqNum(n) == <<n \div ByteBase, n % ByteBase>>

\* The packet that DtcpChannel::send hands to the lower channel.
IntoPacket(drf, seq_num, payload) == <<SetTy(drf)>> \o SetSeqNum(seq_num) \o payload

\* check: parse accepts the packet.
Check(bytes) == Len(bytes) >= 3 /\ bytes[1] \div 16 < 2

\* ty and seq_num of a packet that check has accepted.
Ty(bytes)     == IF bytes[1] \div 16 = 1 THEN [ty |-> "Control"]
                 ELSE [ty |-> "Transfer", drf |-> bytes[1] % 2 = 1]
SeqNum(bytes) == bytes[2] * ByteBase + bytes[3]
Payload(bytes) == SubSeq(bytes, 4, Len(bytes))

================================================================================
