---------------------------- MODULE HandshakePacket ----------------------------
(***************************************************************************)
(* The layout of the messages of a handshake, efcp/src/packet.rs: an       *)
(* optional negotiation message and an optional address, each string       *)
(* behind a length byte.  A cell of a packet is a byte; a character of a   *)
(* protocol name stands for that name, and a character of an address for a *)
(* part of it.  LenMax is what a length byte can tell, u8::MAX in the code.*)
(***************************************************************************)
EXTENDS Negotiation, Addr

CONSTANTS LenMax,       \* the longest string: 255 in the code
          Oversized     \* the protocol names longer than that

ASSUME LayoutAssumption == LenMax \in Nat /\ LenMax >= 5 /\ Oversized \subseteq Protocol

\* The characters of a name: those that can be sent have the greatest length.
Text(p) == [i \in 1..(IF p \in Oversized THEN LenMax + 1 ELSE LenMax) |-> p]

AddrFlag == 240     \* 0xf0

Tag(neg) == CASE neg.ty = "none"    -> 0
              [] neg.ty = "propose" -> 1
              [] neg.ty = "accept"  -> 2
              [] neg.ty = "fail"    -> 3

\* to_bytes succeeds: an address is never too long.
Encodable(neg) == neg.ty = "propose" => Len(Text(neg.protocol)) <= LenMax

\* HandshakePacket::new(neg, addr).to_bytes()
ToBytes(neg, addr) ==
    LET name == IF neg.ty = "propose" THEN Text(neg.protocol) ELSE <<>>
        text == IF addr = NoAddr THEN <<>> ELSE Display(addr) IN
    <<Tag(neg) + IF addr = NoAddr THEN 0 ELSE AddrFlag>>
        \o (IF neg.ty = "propose" THEN <<Len(name)>> \o name ELSE <<>>)
        \o (IF addr = NoAddr THEN <<>> ELSE <<Len(text)>> \o text)

\* A string behind a length byte at position i: ok if it is all there.
Field(bytes, i) ==
    LET len == IF i \in DOMAIN bytes THEN bytes[i] ELSE 0 IN
    [ok   |-> i \in DOMAIN bytes /\ i + len <= Len(bytes),
     text |-> SubSeq(bytes, i + 1, i + len),
     next |-> i + len + 1]

\* The protocol a string names; a string that names none is still a proposal.
NameOf(text) ==
    IF \E p \in Protocol : Text(p) = text
    THEN CHOOSE p \in Protocol : Text(p) = text
    ELSE NoProtocol

Invalid == [ok |-> FALSE, negotiate |-> NoMessage, external_addr |-> NoAddr]

\* from_bytes: the two fields, or an error.  What follows them is ignored.
FromBytes(bytes) ==
    LET tag      == bytes[1] % 16
        name     == Field(bytes, 2)
        proposes == tag = 1
        neg      == CASE tag = 0 -> NoMessage
                      [] tag = 1 -> Proposal(NameOf(name.text))
                      [] tag = 2 -> Accept
                      [] tag = 3 -> Fail
        addr     == Field(bytes, IF proposes THEN name.next ELSE 2)
        located  == bytes[1] \div 16 > 0 IN
    IF \/ bytes = <<>> \/ tag > 3
       \/ proposes /\ ~ name.ok
       \/ located /\ (~ addr.ok \/ FromStr(addr.text) = NoAddr)
    THEN Invalid
    ELSE [ok |-> TRUE, negotiate |-> neg,
          external_addr |-> IF located THEN FromStr(addr.text) ELSE NoAddr]

================================================================================
