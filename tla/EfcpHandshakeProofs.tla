-------------------------- MODULE EfcpHandshakeProofs --------------------------
(***************************************************************************)
(* What holds of setting up an EFCP connection for any protocol lists, any *)
(* address and any number of lost and duplicated datagrams and I/O errors. *)
(***************************************************************************)
EXTENDS EfcpHandshake, SequenceTheorems, TLAPS

-----------------------------------------------------------------------------
(***************************************************************************)
(* The packet format: from_bytes undoes to_bytes.                          *)
(***************************************************************************)

\* What a cell of a packet may hold.
Alphabet == Nat \cup Protocol \cup {"", "ip4", "ip6", "udp"} \cup IP4 \cup IP6 \cup Ports

\* What stands where in s, which is three strings behind each other.
Stacked(s, a, b, c) ==
    /\ s \in Seq(Alphabet) /\ Len(s) = Len(a) + Len(b) + Len(c)
    /\ \A k \in 1..Len(a) : s[k] = a[k]
    /\ \A k \in 1..Len(b) : s[Len(a) + k] = b[k]
    /\ \A k \in 1..Len(c) : s[Len(a) + Len(b) + k] = c[k]

\* A header, a length-prefixed field and the rest, laid end to end, are found again.
LEMMA Concat3 ==
    ASSUME NEW a \in Seq(Alphabet), NEW b \in Seq(Alphabet), NEW c \in Seq(Alphabet)
    PROVE  Stacked(a \o b \o c, a, b, c)
<1>0. PICK s : s = a \o b \o c
  OBVIOUS
<1>1. PICK d : d = a \o b
  OBVIOUS
<1>2. /\ d \in Seq(Alphabet) /\ Len(d) = Len(a) + Len(b)
      /\ \A k \in 1..Len(a) : d[k] = a[k]
      /\ \A k \in 1..Len(b) : d[Len(a) + k] = b[k]
  BY <1>1
<1>3. /\ s \in Seq(Alphabet) /\ Len(s) = Len(d) + Len(c)
      /\ \A k \in 1..Len(d) : s[k] = d[k]
      /\ \A k \in 1..Len(c) : s[Len(d) + k] = c[k]
  BY <1>0, <1>1, <1>2
<1>4. Len(a) \in Nat /\ Len(b) \in Nat /\ Len(c) \in Nat
  OBVIOUS
<1>5. Stacked(s, a, b, c)
  BY <1>2, <1>3, <1>4 DEF Stacked
<1>6. QED
  BY <1>0, <1>5

\* A string behind its length.
LEMMA Prefixed ==
    ASSUME NEW t \in Seq(Alphabet), NEW f, f = <<Len(t)>> \o t
    PROVE  /\ f \in Seq(Alphabet) /\ Len(f) = Len(t) + 1 /\ f[1] = Len(t)
           /\ \A k \in 1..Len(t) : f[k + 1] = t[k]
<1>1. Len(t) \in Alphabet
  <2>1. Len(t) \in Nat
    OBVIOUS
  <2>2. QED
    BY <2>1 DEF Alphabet
<1>2. QED
  BY <1>1

\* Where a string behind its length stands in a packet, it is read.
LEMMA FieldRead ==
    ASSUME NEW bytes \in Seq(Alphabet), NEW i \in DOMAIN bytes, NEW t \in Seq(Alphabet),
           bytes[i] = Len(t), i + Len(t) <= Len(bytes),
           \A k \in 1..Len(t) : bytes[i + k] = t[k]
    PROVE  Field(bytes, i) = [ok |-> TRUE, text |-> t, next |-> i + Len(t) + 1]
<1>1. i \in Nat /\ Len(t) \in Nat /\ Len(bytes) \in Nat
  OBVIOUS
<1> DEFINE v == SubSeq(bytes, i + 1, i + Len(t))
<1>2. v \in Seq(Alphabet) /\ Len(v) = Len(t) /\ \A k \in 1..Len(t) : v[k] = bytes[(i + 1) + k - 1]
  BY <1>1, SubSeqProperties
<1>3. \A k \in 1..Len(v) : v[k] = t[k]
  <2>1. \A k \in 1..Len(t) : (i + 1) + k - 1 = i + k
    BY <1>1
  <2>2. QED
    BY <1>2, <2>1
<1> HIDE DEF v
<1>4. v = t
  BY <1>2, <1>3, SeqEqual, Zenon
<1>5. QED
  BY <1>4 DEF Field, v

\* The text of a protocol name that fits into a packet names that protocol.
LEMMA TextRead ==
    ASSUME NEW p \in Protocol, p \notin Oversized
    PROVE  Text(p) \in Seq(Alphabet) /\ Len(Text(p)) = LenMax /\ NameOf(Text(p)) = p
<1>1. LenMax \in Nat /\ LenMax >= 5
  BY LayoutAssumption
<1>2. Text(p) = [i \in 1..LenMax |-> p]
  BY DEF Text
<1>3. p \in Alphabet
  BY DEF Alphabet
<1>4. Text(p) \in Seq(Alphabet) /\ Len(Text(p)) = LenMax
  BY <1>1, <1>2, <1>3
<1>5. ASSUME NEW q \in Protocol, Text(q) = Text(p) PROVE q = p
  <2>1. Text(q)[1] = q
    BY <1>1 DEF Text
  <2>2. Text(p)[1] = p
    BY <1>1, <1>2
  <2>3. QED
    BY <1>5, <2>1, <2>2
<1>6. NameOf(Text(p)) = p
  BY <1>5, Zenon DEF NameOf
<1>7. QED
  BY <1>4, <1>6

\* The tail of a sequence of five.
LEMMA TailOfFive ==
    ASSUME NEW S, NEW s \in Seq(S), Len(s) = 5
    PROVE  /\ Len(Tail(s)) = 4 /\ Tail(s)[1] = s[2] /\ Tail(s)[2] = s[3]
           /\ Tail(s)[3] = s[4] /\ Tail(s)[4] = s[5]
<1>1. Len(Tail(s)) = 4 /\ \A k \in 1..4 : Tail(s)[k] = s[k + 1]
  OBVIOUS
<1>2. PICK t : t = Tail(s)
  OBVIOUS
<1>3. \A k \in 1..4 : t[k] = s[k + 1]
  BY <1>1, <1>2
<1>4. t[1] = s[1 + 1] /\ t[2] = s[2 + 1] /\ t[3] = s[3 + 1] /\ t[4] = s[4 + 1]
  <2>1. 1 \in 1..4 /\ 2 \in 1..4 /\ 3 \in 1..4 /\ 4 \in 1..4
    OBVIOUS
  <2>2. QED
    BY <1>3, <2>1, Zenon
<1>5. 1 + 1 = 2 /\ 2 + 1 = 3 /\ 3 + 1 = 4 /\ 4 + 1 = 5
  OBVIOUS
<1>6. t[1] = s[2] /\ t[2] = s[3] /\ t[3] = s[4] /\ t[4] = s[5]
  BY <1>4, <1>5, Zenon
<1>7. QED
  BY <1>1, <1>2, <1>6, Zenon

\* from_str undoes Display.
LEMMA AddrRead ==
    ASSUME NEW addr \in Addresses
    PROVE  /\ Display(addr) \in Seq(Alphabet) /\ Len(Display(addr)) = 5
           /\ FromStr(Display(addr)) = addr /\ addr # NoAddr
<1>1. /\ addr.ip \in IP4 \cup IP6 /\ addr.port \in Ports
      /\ addr = [ip |-> addr.ip, port |-> addr.port]
  BY DEF Addresses
<1>2. PICK a, b, c, d, e :
          /\ a = "" /\ b = (IF addr.ip \in IP4 THEN "ip4" ELSE "ip6")
          /\ c = addr.ip /\ d = "udp" /\ e = addr.port
  OBVIOUS
<1>3. a \in Alphabet /\ b \in Alphabet /\ c \in Alphabet /\ d \in Alphabet /\ e \in Alphabet
  BY <1>1, <1>2 DEF Alphabet
<1> DEFINE text == <<a, b, c, d, e>>
<1>4. /\ text \in Seq(Alphabet) /\ Len(text) = 5
      /\ text[2] = b /\ text[3] = c /\ text[4] = d /\ text[5] = e
  BY <1>3
<1>5. Display(addr) = text
  BY <1>2 DEF Display
<1> HIDE DEF text
<1>6. PICK t : t = Tail(text)
  OBVIOUS
<1>7. Len(t) = 4 /\ t[1] = b /\ t[2] = c /\ t[3] = d /\ t[4] = e
  BY <1>4, <1>6, TailOfFive, Zenon
<1>8. /\ t[3] = "udp" /\ t[4] \in Ports
      /\ \/ t[1] = "ip4" /\ t[2] \in IP4
         \/ t[1] = "ip6" /\ t[2] \in IP6
  BY <1>1, <1>2, <1>7
<1>9. FromStr(text) = [ip |-> t[2], port |-> t[4]]
  <2>1. Len(t) # 2 /\ Len(t) = 4
    BY <1>7
  <2>2. QED
    BY <1>6, <1>8, <2>1 DEF FromStr
<1>10. addr # NoAddr
  <2>1. addr.ip # "none"
    BY <1>1, AddrAssumption
  <2>2. QED
    BY <2>1 DEF NoAddr
<1>11. FromStr(text) = addr
  BY <1>1, <1>2, <1>7, <1>9
<1>12. QED
  BY <1>4, <1>5, <1>10, <1>11

\* What a field of a packet may hold.
Neg     == {n \in Message \cup {NoMessage} : Encodable(n)}
Located == {Observed, NoAddr}

\* The type of a message is told by the tag in the low half of the first byte.
LEMMA Tags ==
    ASSUME NEW neg \in Neg
    PROVE  \/ neg = NoMessage /\ neg.ty = "none" /\ Tag(neg) = 0
           \/ /\ neg.ty = "propose" /\ Tag(neg) = 1 /\ neg = Proposal(neg.protocol)
              /\ neg.protocol \in Protocol \ Oversized
           \/ neg = Accept /\ neg.ty = "accept" /\ Tag(neg) = 2
           \/ neg = Fail /\ neg.ty = "fail" /\ Tag(neg) = 3
<1>1. CASE neg = NoMessage
  BY <1>1 DEF NoMessage, Tag
<1>2. CASE neg = Accept
  BY <1>2 DEF Accept, Tag
<1>3. CASE neg = Fail
  BY <1>3 DEF Fail, Tag
<1>4. ASSUME NEW p \in Protocol, neg = Proposal(p)
      PROVE  /\ neg.ty = "propose" /\ Tag(neg) = 1 /\ neg = Proposal(neg.protocol)
             /\ neg.protocol \in Protocol \ Oversized
  <2>1. neg.ty = "propose" /\ neg.protocol = p /\ Tag(neg) = 1
    BY <1>4 DEF Proposal, Tag
  <2>2. Len(Text(p)) <= LenMax
    BY <2>1 DEF Neg, Encodable
  <2>3. p \notin Oversized
    <3>1. SUFFICES ASSUME p \in Oversized PROVE FALSE
      OBVIOUS
    <3>2. LenMax \in Nat
      BY LayoutAssumption
    <3>3. Len([i \in 1..(LenMax + 1) |-> p]) = LenMax + 1
      BY <3>2
    <3>4. Text(p) = [i \in 1..(LenMax + 1) |-> p]
      BY <3>1 DEF Text
    <3>5. QED
      BY <2>2, <3>2, <3>3, <3>4
  <2>4. QED
    BY <1>4, <2>1, <2>3
<1>5. QED
  BY <1>1, <1>2, <1>3, <1>4 DEF Neg, Message

\* The first byte tells the tag and whether there is an address.
LEMMA FirstByte ==
    ASSUME NEW tag \in {0, 1, 2, 3}
    PROVE  /\ tag % 16 = tag /\ tag \div 16 = 0
           /\ (tag + AddrFlag) % 16 = tag /\ (tag + AddrFlag) \div 16 = 15
           /\ tag + AddrFlag \in Nat
BY DEF AddrFlag

\* from_bytes reads what to_bytes wrote: the tag, the name and the address, each
\* where it stands in the packet.
LEMMA RoundTrip ==
    ASSUME NEW neg \in Neg, NEW addr \in Located
    PROVE  FromBytes(ToBytes(neg, addr)) = [ok |-> TRUE, negotiate |-> neg, external_addr |-> addr]
<1>1. PICK tag, x : /\ tag = Tag(neg)
                    /\ x = tag + IF addr = NoAddr THEN 0 ELSE AddrFlag
  OBVIOUS
<1>2. tag \in {0, 1, 2, 3} /\ (tag = 1 <=> neg.ty = "propose")
  BY <1>1, Tags
<1>3. x \in Nat /\ x % 16 = tag /\ (x \div 16 > 0 <=> addr # NoAddr)
  <2>1. /\ tag % 16 = tag /\ tag \div 16 = 0
        /\ (tag + AddrFlag) % 16 = tag /\ (tag + AddrFlag) \div 16 = 15
        /\ tag + AddrFlag \in Nat /\ tag \in Nat /\ tag + 0 = tag
    BY <1>2, FirstByte
  <2>2. CASE addr = NoAddr
    <3>1. x = tag
      BY <1>1, <2>1, <2>2
    <3>2. QED
      BY <2>1, <2>2, <3>1
  <2>3. CASE addr # NoAddr
    <3>1. x = tag + AddrFlag
      BY <1>1, <2>3
    <3>2. x \in Nat /\ x % 16 = tag /\ x \div 16 = 15
      BY <2>1, <3>1, Zenon
    <3>3. QED
      BY <2>3, <3>2
  <2>4. QED
    BY <2>2, <2>3
<1>4. PICK name, text : /\ name = Text(neg.protocol)
                        /\ text = Display(addr)
  OBVIOUS
<1>5. neg.ty = "propose" => /\ name \in Seq(Alphabet) /\ NameOf(name) = neg.protocol
                            /\ neg = Proposal(neg.protocol)
  BY <1>4, Tags, TextRead
<1>6. addr # NoAddr => text \in Seq(Alphabet) /\ FromStr(text) = addr
  BY <1>4, AddrRead, HandshakeAssumption DEF Located
<1>7. PICK N, A : /\ N = IF neg.ty = "propose" THEN <<Len(name)>> \o name ELSE <<>>
                  /\ A = IF addr = NoAddr THEN <<>> ELSE <<Len(text)>> \o text
  OBVIOUS
<1>8. PICK bytes : bytes = <<x>> \o N \o A
  OBVIOUS
<1>9. ToBytes(neg, addr) = bytes
  BY <1>1, <1>4, <1>7, <1>8 DEF ToBytes
<1>10. Nat \subseteq Alphabet
  BY DEF Alphabet
<1>11. N \in Seq(Alphabet) /\ A \in Seq(Alphabet)
  <2>1. <<>> \in Seq(Alphabet)
    OBVIOUS
  <2>2. neg.ty = "propose" => N \in Seq(Alphabet)
    BY <1>5, <1>7, <1>10, Prefixed
  <2>3. addr # NoAddr => A \in Seq(Alphabet)
    BY <1>6, <1>7, <1>10, Prefixed
  <2>4. QED
    BY <1>7, <2>1, <2>2, <2>3
<1>12. /\ bytes \in Seq(Alphabet) /\ Len(bytes) = 1 + Len(N) + Len(A) /\ bytes[1] = x
       /\ \A k \in 1..Len(N) : bytes[1 + k] = N[k]
       /\ \A k \in 1..Len(A) : bytes[1 + Len(N) + k] = A[k]
  <2>1. PICK b : b = <<x>>
    OBVIOUS
  <2>2. b \in Seq(Alphabet) /\ Len(b) = 1 /\ b[1] = x
    <3>1. <<x>> \in Seq(Alphabet) /\ Len(<<x>>) = 1 /\ <<x>>[1] = x
      BY <1>3, <1>10
    <3>2. QED
      BY <2>1, <3>1, Zenon
  <2>3. bytes = b \o N \o A
    BY <1>8, <2>1
  <2>4. Stacked(bytes, b, N, A)
    BY <1>11, <2>2, <2>3, Concat3, Zenon
  <2>5. QED
    BY <2>2, <2>4 DEF Stacked
<1>13. Len(N) \in Nat /\ Len(A) \in Nat
  BY <1>11
<1>14. neg.ty = "propose" =>
           Field(bytes, 2) = [ok |-> TRUE, text |-> name, next |-> 2 + Len(N)]
  <2>1. SUFFICES ASSUME neg.ty = "propose"
                 PROVE  Field(bytes, 2) = [ok |-> TRUE, text |-> name, next |-> 2 + Len(N)]
    OBVIOUS
  <2>2. /\ name \in Seq(Alphabet) /\ Len(N) = Len(name) + 1 /\ N[1] = Len(name)
        /\ \A k \in 1..Len(name) : N[k + 1] = name[k]
    BY <1>5, <1>7, <1>10, <2>1, Prefixed
  <2>3. Len(name) \in Nat
    BY <2>2
  <2>4. 2 \in DOMAIN bytes /\ bytes[2] = Len(name) /\ 2 + Len(name) <= Len(bytes)
    <3>1. bytes[1 + 1] = N[1]
      BY <1>12, <2>2, <2>3
    <3>2. QED
      BY <1>12, <1>13, <2>2, <2>3, <3>1
  <2>5. \A k \in 1..Len(name) : bytes[2 + k] = name[k]
    <3>1. SUFFICES ASSUME NEW k \in 1..Len(name) PROVE bytes[2 + k] = name[k]
      OBVIOUS
    <3>2. k + 1 \in 1..Len(N) /\ 1 + (k + 1) = 2 + k
      BY <2>2, <2>3
    <3>3. bytes[1 + (k + 1)] = N[k + 1]
      BY <1>12, <3>2
    <3>4. QED
      BY <2>2, <3>2, <3>3
  <2>6. Field(bytes, 2) = [ok |-> TRUE, text |-> name, next |-> 2 + Len(name) + 1]
    BY <1>12, <2>2, <2>4, <2>5, FieldRead
  <2>7. QED
    BY <2>2, <2>3, <2>6
<1>15. addr # NoAddr =>
           Field(bytes, 2 + Len(N)) = [ok |-> TRUE, text |-> text, next |-> 2 + Len(N) + Len(A)]
  <2>1. SUFFICES ASSUME addr # NoAddr
                 PROVE  Field(bytes, 2 + Len(N))
                            = [ok |-> TRUE, text |-> text, next |-> 2 + Len(N) + Len(A)]
    OBVIOUS
  <2>2. /\ text \in Seq(Alphabet) /\ Len(A) = Len(text) + 1 /\ A[1] = Len(text)
        /\ \A k \in 1..Len(text) : A[k + 1] = text[k]
    BY <1>6, <1>7, <1>10, <2>1, Prefixed
  <2>3. Len(text) \in Nat
    BY <2>2
  <2>4. PICK i \in Nat : i = 2 + Len(N)
    BY <1>13
  <2>5. i \in DOMAIN bytes /\ bytes[i] = Len(text) /\ i + Len(text) <= Len(bytes)
    <3>1. bytes[1 + Len(N) + 1] = A[1] /\ 1 + Len(N) + 1 = i
      BY <1>12, <1>13, <2>2, <2>3, <2>4
    <3>2. QED
      BY <1>12, <1>13, <2>2, <2>3, <2>4, <3>1
  <2>6. \A k \in 1..Len(text) : bytes[i + k] = text[k]
    <3>1. SUFFICES ASSUME NEW k \in 1..Len(text) PROVE bytes[i + k] = text[k]
      OBVIOUS
    <3>2. k + 1 \in 1..Len(A) /\ 1 + Len(N) + (k + 1) = i + k
      BY <1>13, <2>2, <2>3, <2>4
    <3>3. bytes[1 + Len(N) + (k + 1)] = A[k + 1]
      BY <1>12, <3>2
    <3>4. QED
      BY <2>2, <3>2, <3>3
  <2>7. Field(bytes, i) = [ok |-> TRUE, text |-> text, next |-> i + Len(text) + 1]
    BY <1>12, <2>2, <2>5, <2>6, FieldRead
  <2>8. i + Len(text) + 1 = 2 + Len(N) + Len(A)
    BY <1>13, <2>2, <2>3, <2>4
  <2>9. QED
    BY <2>4, <2>7, <2>8, Zenon
<1>16. neg.ty # "propose" => Len(N) = 0
  <2>1. Len(<<>>) = 0
    OBVIOUS
  <2>2. QED
    BY <1>7, <2>1, Zenon
<1>17. bytes # <<>> /\ tag <= 3 /\ bytes[1] = x
  BY <1>2, <1>12, <1>13
<1>18. PICK first : first = Field(bytes, 2)
  OBVIOUS
<1>19. PICK second : second = Field(bytes, IF tag = 1 THEN first.next ELSE 2)
  OBVIOUS
<1>20. addr # NoAddr => second.ok = TRUE /\ second.text = text
  <2>1. tag = 1 => first.next = 2 + Len(N)
    BY <1>2, <1>14, <1>18
  <2>2. tag # 1 => 2 + Len(N) = 2
    BY <1>2, <1>16
  <2>3. second = Field(bytes, 2 + Len(N))
    BY <1>19, <2>1, <2>2
  <2>4. QED
    BY <1>15, <2>3
<1>21. tag = 1 => first.ok = TRUE /\ Proposal(NameOf(first.text)) = neg
  BY <1>2, <1>5, <1>14, <1>18
<1>22. neg = CASE tag = 0 -> NoMessage
               [] tag = 1 -> Proposal(NameOf(first.text))
               [] tag = 2 -> Accept
               [] tag = 3 -> Fail
  BY <1>1, <1>2, <1>21, Tags
<1>23. FromBytes(bytes)
           = IF \/ bytes = <<>> \/ tag > 3
                \/ tag = 1 /\ ~ first.ok
                \/ x \div 16 > 0 /\ (~ second.ok \/ FromStr(second.text) = NoAddr)
             THEN Invalid
             ELSE [ok |-> TRUE,
                   negotiate |-> CASE tag = 0 -> NoMessage
                                   [] tag = 1 -> Proposal(NameOf(first.text))
                                   [] tag = 2 -> Accept
                                   [] tag = 3 -> Fail,
                   external_addr |-> IF x \div 16 > 0 THEN FromStr(second.text) ELSE NoAddr]
  BY <1>3, <1>17, <1>18, <1>19 DEF FromBytes
<1>24. FromBytes(bytes) = [ok |-> TRUE, negotiate |-> neg,
                           external_addr |-> IF x \div 16 > 0 THEN FromStr(second.text) ELSE NoAddr]
  <2>1. ~ (tag > 3)
    BY <1>2
  <2>2. x \div 16 > 0 => second.ok /\ FromStr(second.text) # NoAddr
    BY <1>3, <1>6, <1>20
  <2>3. tag = 1 => first.ok
    BY <1>21
  <2>4. QED
    BY <1>17, <1>22, <1>23, <2>1, <2>2, <2>3, Zenon
<1>25. (IF x \div 16 > 0 THEN FromStr(second.text) ELSE NoAddr) = addr
  BY <1>3, <1>6, <1>20
<1>26. QED
  BY <1>9, <1>24, <1>25

-----------------------------------------------------------------------------
(***************************************************************************)
(* What a turn of a side does.                                             *)
(***************************************************************************)
AnyMessage == Message \cup {NoMessage}

\* The two sides are each other's peers.
LEMMA Two == I # R /\ Sides = {I, R} /\ Peer(I) = R /\ Peer(R) = I
BY DEF I, R, Sides, Peer

\* What a datagram says.
Says(m) == Parsed[m.bytes].negotiate

\* A packet that was sent is read as what was sent.
LEMMA Sent ==
    ASSUME NEW neg \in Neg, NEW addr \in Located
    PROVE  /\ ToBytes(neg, addr) \in Packets
           /\ Parsed[ToBytes(neg, addr)] = [ok |-> TRUE, negotiate |-> neg, external_addr |-> addr]
<1>1. ToBytes(neg, addr) \in Packets
  BY DEF Packets, Neg, Located
<1>2. QED
  BY <1>1, RoundTrip DEF Parsed

\* Every packet parses.
LEMMA Parses ==
    ASSUME NEW bytes \in Packets
    PROVE  /\ Parsed[bytes].ok = TRUE /\ Parsed[bytes].negotiate \in Neg
           /\ Parsed[bytes].external_addr \in Located
<1>1. PICK neg \in Neg, addr \in Located : bytes = ToBytes(neg, addr)
  BY DEF Packets, Neg, Located
<1>2. Parsed[bytes] = [ok |-> TRUE, negotiate |-> neg, external_addr |-> addr]
  BY <1>1, Sent
<1>3. QED
  BY <1>1, <1>2

\* The datagrams that the two tasks send.
LEMMA HandshakeSent ==
    ASSUME NEW stage \in {"msg1", "msg2", "msg3"}, NEW neg \in Neg, NEW addr \in Located,
           NEW m, m = HandshakeMessage(stage, neg, addr)
    PROVE  /\ m \in Datagram /\ m.stage = stage /\ Says(m) = neg
           /\ Parsed[m.bytes].external_addr = addr
<1>1. m \in Datagram /\ m.stage = stage /\ m.bytes = ToBytes(neg, addr)
  BY Sent DEF HandshakeMessage, Datagram
<1>2. Parsed[m.bytes] = [ok |-> TRUE, negotiate |-> neg, external_addr |-> addr]
  BY <1>1, Sent
<1>3. QED
  BY <1>1, <1>2 DEF Says

\* A transport message is read as what was sent.
LEMMA TransportSent ==
    ASSUME NEW s, nonce[s] \in Nat, NEW neg \in Neg, NEW addr \in Located,
           NEW m, m = TransportMessage(s, neg, addr)
    PROVE  m \in Datagram /\ m.stage = "transport" /\ Says(m) = neg
<1>1. m \in Datagram /\ m.stage = "transport" /\ m.bytes = ToBytes(neg, addr)
  BY Sent DEF TransportMessage, Datagram
<1>2. Parsed[m.bytes] = [ok |-> TRUE, negotiate |-> neg, external_addr |-> addr]
  BY <1>1, Sent
<1>3. QED
  BY <1>1, <1>2 DEF Says

\* The next proposal of a list.
Proposes(n, list, r) ==
    /\ r.state \in State /\ r.reply \in AnyMessage /\ r.ok = TRUE
    /\ r.state.tried = n.tried + 1 /\ r.state.accepted = n.accepted
    /\ \/ /\ n.tried + 1 \in DOMAIN list
          /\ r.reply = Proposal(list[n.tried + 1])
          /\ r.state.proposed = list[n.tried + 1]
          /\ r.state.finished = n.finished
       \/ /\ n.tried + 1 \notin DOMAIN list
          /\ r.reply = Fail
          /\ r.state.finished = TRUE

\* What initiate, and the answer to a refusal, propose next.
LEMMA ProposeStep ==
    ASSUME NEW n \in State, NEW list \in Seq(Protocol), NEW r, r = Propose(n, list)
    PROVE  Proposes(n, list, r)
<1> USE DEF Proposes
<1>1. /\ n.tried \in Nat /\ n.tried + 1 \in Nat
      /\ n.proposed \in Protocol \cup {NoProtocol} /\ n.accepted \in Protocol \cup {NoProtocol}
      /\ n.finished \in BOOLEAN
  BY DEF State
<1>2. CASE n.tried + 1 \in DOMAIN list
  <2>1. PICK p \in Protocol : p = list[n.tried + 1]
    BY <1>2
  <2>2. PICK st : st = [n EXCEPT !.tried = n.tried + 1, !.proposed = p]
    OBVIOUS
  <2>3. r.state = st /\ r.reply = Proposal(p) /\ r.ok = TRUE
    BY <1>2, <2>1, <2>2 DEF Propose
  <2>4. Proposal(p) \in AnyMessage
    BY DEF AnyMessage, Message
  <2>5. /\ st \in State /\ st.tried = n.tried + 1 /\ st.accepted = n.accepted
        /\ st.proposed = p /\ st.finished = n.finished
    BY <1>1, <2>2 DEF State
  <2>6. QED
    BY <1>2, <2>1, <2>3, <2>4, <2>5
<1>3. CASE n.tried + 1 \notin DOMAIN list
  <2>1. PICK st : st = [n EXCEPT !.tried = n.tried + 1, !.finished = TRUE]
    OBVIOUS
  <2>2. r.state = st /\ r.reply = Fail /\ r.ok = TRUE
    BY <1>3, <2>1 DEF Propose
  <2>3. Fail \in AnyMessage
    BY DEF AnyMessage, Message
  <2>4. /\ st \in State /\ st.tried = n.tried + 1 /\ st.accepted = n.accepted
        /\ st.finished = TRUE
    BY <1>1, <2>1 DEF State
  <2>5. QED
    BY <1>3, <2>2, <2>3, <2>4
<1>4. QED
  BY <1>2, <1>3

\* message, by the message that arrives.
Handles(n, list, msg, r) ==
    /\ r.state \in State /\ r.reply \in AnyMessage /\ r.ok \in BOOLEAN
    /\ \/ /\ msg.ty = "propose" /\ n.accepted # NoProtocol /\ ~ r.ok
       \/ /\ msg.ty = "propose" /\ n.accepted = NoProtocol
          /\ msg.protocol \in Members(list)
          /\ r.state.accepted = msg.protocol /\ r.state.finished = TRUE
          /\ r.reply = Accept
       \/ /\ msg.ty = "propose" /\ n.accepted = NoProtocol
          /\ msg.protocol \notin Members(list)
          /\ Proposes(n, list, r)
       \/ /\ msg = Accept
          /\ r.state.accepted = n.proposed /\ r.state.finished = TRUE
          /\ r.reply = NoMessage
       \/ /\ msg = Fail
          /\ r.state.accepted = n.accepted /\ r.state.finished = TRUE
          /\ r.reply = NoMessage
       \/ /\ msg = NoMessage
          /\ r.state = n
          /\ r.reply = NoMessage

\* What message does, for each kind of message it can be given.
LEMMA HandleStep ==
    ASSUME NEW n \in State, NEW list \in Seq(Protocol), NEW msg \in AnyMessage,
           NEW r, r = HandleMessage(n, list, msg)
    PROVE  Handles(n, list, msg, r)
<1> USE DEF Handles
<1>1. /\ n.tried \in Nat
      /\ n.proposed \in Protocol \cup {NoProtocol} /\ n.accepted \in Protocol \cup {NoProtocol}
      /\ n.finished \in BOOLEAN
  BY DEF State
<1>2. Accept \in AnyMessage /\ NoMessage \in AnyMessage
  BY DEF AnyMessage, Message
<1>3. CASE msg = Accept
  <2>1. msg.ty = "accept"
    BY <1>3 DEF Accept
  <2>2. r.state = Accepted(n) /\ r.reply = NoMessage /\ r.ok = TRUE
    BY <2>1 DEF HandleMessage
  <2>3. Accepted(n) \in State
    BY <1>1 DEF Accepted, State
  <2>4. Accepted(n).accepted = n.proposed /\ Accepted(n).finished = TRUE
    BY DEF Accepted, State
  <2>5. QED
    BY <1>2, <1>3, <2>2, <2>3, <2>4
<1>4. CASE msg = Fail
  <2>1. msg.ty = "fail"
    BY <1>4 DEF Fail
  <2>2. PICK st : st = [n EXCEPT !.finished = TRUE]
    OBVIOUS
  <2>3. r.state = st /\ r.reply = NoMessage /\ r.ok = TRUE
    BY <2>1, <2>2 DEF HandleMessage
  <2>4. st \in State /\ st.accepted = n.accepted /\ st.finished = TRUE
    BY <1>1, <2>2 DEF State
  <2>5. QED
    BY <1>2, <1>4, <2>3, <2>4
<1>5. CASE msg = NoMessage
  <2>1. msg.ty = "none"
    BY <1>5 DEF NoMessage
  <2>2. r.state = n /\ r.reply = NoMessage /\ r.ok = TRUE
    BY <2>1 DEF HandleMessage
  <2>3. QED
    BY <1>2, <1>5, <2>2
<1>6. ASSUME NEW p \in Protocol, msg = Proposal(p)
      PROVE  msg.ty = "propose" /\ msg.protocol = p
  BY <1>6 DEF Proposal
<1>7. CASE msg.ty = "propose" /\ n.accepted # NoProtocol
  <2>1. r.state = n /\ r.reply = NoMessage /\ r.ok = FALSE
    BY <1>7 DEF HandleMessage
  <2>2. QED
    BY <1>2, <1>7, <2>1
<1>8. ASSUME msg.ty = "propose", n.accepted = NoProtocol, msg.protocol \in Members(list),
             msg.protocol \in Protocol
      PROVE  /\ r.state \in State /\ r.reply \in AnyMessage /\ r.ok \in BOOLEAN
             /\ r.state.accepted = msg.protocol /\ r.state.finished = TRUE
             /\ r.reply = Accept
  <2>1. PICK st : st = [n EXCEPT !.accepted = msg.protocol, !.finished = TRUE]
    OBVIOUS
  <2>2. r.state = st /\ r.reply = Accept /\ r.ok = TRUE
    BY <1>8, <2>1 DEF HandleMessage
  <2>3. st \in State /\ st.accepted = msg.protocol /\ st.finished = TRUE
    BY <1>1, <1>8, <2>1 DEF State
  <2>4. QED
    BY <1>2, <2>2, <2>3
<1>9. CASE msg.ty = "propose" /\ n.accepted = NoProtocol /\ msg.protocol \notin Members(list)
  <2>1. r = Propose(n, list)
    BY <1>9 DEF HandleMessage
  <2>2. Proposes(n, list, r)
    BY <2>1, ProposeStep
  <2>3. QED
    BY <1>9, <2>2 DEF Proposes
<1>10. msg = Accept \/ msg = Fail \/ msg = NoMessage \/ \E p \in Protocol : msg = Proposal(p)
  BY DEF AnyMessage, Message
<1>11. CASE \E p \in Protocol : msg = Proposal(p)
  <2>1. msg.ty = "propose" /\ msg.protocol \in Protocol
    BY <1>6, <1>11
  <2>2. CASE n.accepted = NoProtocol /\ msg.protocol \in Members(list)
    BY <1>8, <2>1, <2>2
  <2>3. QED
    BY <1>7, <1>9, <2>1, <2>2
<1>12. QED
  BY <1>3, <1>4, <1>5, <1>10, <1>11

-----------------------------------------------------------------------------
(***************************************************************************)
(* Type correctness.                                                       *)
(***************************************************************************)

\* Taking a datagram and sending others.
LEMMA TransferStep ==
    ASSUME TypeOK, NEW s \in Sides, NEW m, NEW out \in SUBSET Datagram, Transfer(s, m, out)
    PROVE  /\ wire' \in [Sides -> SUBSET Datagram]
           /\ wire'[s] \subseteq wire[s] /\ wire'[Peer(s)] = wire[Peer(s)] \cup out
           /\ lost' \in 0..MaxLost /\ duplicated' \in 0..MaxDuplicated
           /\ io_errors' \in 0..MaxIoErrors
           /\ \/ duplicated' = duplicated /\ wire'[s] = wire[s] \ {m}
              \/ duplicated' # 0
<1>1. /\ wire \in [Sides -> SUBSET Datagram] /\ Peer(s) \in Sides /\ Peer(s) # s
      /\ lost \in 0..MaxLost /\ duplicated \in 0..MaxDuplicated /\ io_errors \in 0..MaxIoErrors
      /\ MaxDuplicated \in Nat
  BY HandshakeAssumption, Two DEF TypeOK
<1>2. CASE wire' = [wire EXCEPT ![s] = @ \ {m}, ![Peer(s)] = @ \cup out] /\ UNCHANGED duplicated
  <2>1. wire'[s] = wire[s] \ {m} /\ wire'[Peer(s)] = wire[Peer(s)] \cup out
    BY <1>1, <1>2
  <2>2. wire' \in [Sides -> SUBSET Datagram]
    BY <1>1, <1>2
  <2>3. QED
    BY <1>1, <1>2, <2>1, <2>2 DEF Transfer
<1>3. CASE /\ duplicated < MaxDuplicated /\ duplicated' = duplicated + 1
           /\ wire' = [wire EXCEPT ![Peer(s)] = @ \cup out]
  <2>1. wire'[s] = wire[s] /\ wire'[Peer(s)] = wire[Peer(s)] \cup out
    BY <1>1, <1>3
  <2>2. wire' \in [Sides -> SUBSET Datagram]
    BY <1>1, <1>3
  <2>3. duplicated' \in 0..MaxDuplicated /\ duplicated' # 0
    BY <1>1, <1>3
  <2>4. QED
    BY <1>1, <2>1, <2>2, <2>3 DEF Transfer
<1>4. QED
  BY <1>2, <1>3 DEF Transfer

\* The address that a datagram carries.
Heard(m) == Parsed[m.bytes].external_addr

\* Side s takes datagram m, its negotiation makes r of it, and s sends `out`: then
\* it is at l, with external address addr and nonce k.
Takes(s, m, r, out, l, addr, k) ==
    /\ m \in wire[s] /\ m \in Datagram /\ Readable(s, m)
    /\ Says(m) \in Neg /\ Heard(m) \in Located
    /\ r = HandleMessage(negotiate[s], protocols[s], Says(m)) /\ r.ok
    /\ r.state \in State /\ r.reply \in Neg
    /\ out \in SUBSET Datagram /\ Transfer(s, m, out)
    /\ l \in Waiting \cup Ended /\ addr \in Located /\ k \in Nat
    /\ protocols' = protocols
    /\ negotiate' = [negotiate EXCEPT ![s] = r.state]
    /\ pc' = [pc EXCEPT ![s] = l]
    /\ external_addr' = [external_addr EXCEPT ![s] = addr]
    /\ nonce' = [nonce EXCEPT ![s] = k]

\* What side s makes of datagram m is what HandleMessage makes of what m says.
LEMMA TurnStep ==
    ASSUME TypeOK, NEW s \in Sides, NEW m \in wire[s], Turn(s, m).ok
    PROVE  \E r :
               /\ m \in Datagram /\ Readable(s, m) /\ Says(m) \in Neg /\ Heard(m) \in Located
               /\ r = HandleMessage(negotiate[s], protocols[s], Says(m)) /\ r.ok
               /\ r.state \in State /\ r.reply \in Neg
               /\ Turn(s, m).state = r.state /\ Turn(s, m).reply = r.reply
               /\ Turn(s, m).external_addr = Heard(m)
<1>1. /\ negotiate[s] \in State /\ protocols[s] \in Seq(Protocol)
      /\ m \in Datagram /\ m.bytes \in Packets
  BY HandshakeAssumption DEF TypeOK, Datagram
<1>2. Says(m) \in Neg /\ Heard(m) \in Located
  BY <1>1, Parses DEF Says, Heard
<1>3. Says(m) \in AnyMessage
  BY <1>2 DEF Neg, AnyMessage
<1>4. PICK r : r = HandleMessage(negotiate[s], protocols[s], Says(m))
  OBVIOUS
<1>5. r.state \in State /\ r.reply \in AnyMessage
  <2>1. PICK n \in State, list \in Seq(Protocol), msg \in AnyMessage :
            n = negotiate[s] /\ list = protocols[s] /\ msg = Says(m)
    BY <1>1, <1>3
  <2>2. r = HandleMessage(n, list, msg)
    BY <1>4, <2>1
  <2>3. QED
    BY <2>2, HandleStep DEF Handles
<1>6. /\ Turn(s, m).state = r.state /\ Turn(s, m).reply = r.reply
      /\ Turn(s, m).external_addr = Heard(m)
      /\ Readable(s, m) /\ r.ok /\ Encodable(r.reply)
  BY <1>4 DEF Turn, Says, Heard
<1>7. r.reply \in Neg
  BY <1>5, <1>6 DEF Neg, AnyMessage
<1>8. QED
  BY <1>1, <1>2, <1>4, <1>5, <1>6, <1>7, Zenon

\* How a negotiation ends.
LEMMA Outcomes ==
    ASSUME NEW n \in State
    PROVE  /\ Outcome(n) \in Ended
           /\ n.finished /\ n.accepted # NoProtocol => Outcome(n) = "done"
           /\ n.finished /\ n.accepted = NoProtocol => Outcome(n) = "no_protocol"
           /\ n.finished => Outcome(n) # "panicked"
BY DEF Outcome, Ended, State

\* The parts of the type invariant, by side.
LEMMA Parts ==
    ASSUME TypeOK, NEW s \in Sides
    PROVE  /\ protocols[s] \in Seq(Protocol) /\ negotiate[s] \in State
           /\ external_addr[s] \in Located /\ nonce[s] \in Nat
           /\ wire[s] \in SUBSET Datagram /\ NoAddr \in Located
           /\ pc[s] \in {"start"} \cup Waiting \cup Ended
BY HandshakeAssumption DEF TypeOK, Located

\* The second message of the handshake at the initiator.
LEMMA InitiatorHandshakeStep ==
    ASSUME TypeOK, InitiatorHandshake
    PROVE  \E m, r, d, l, addr, k :
               /\ Takes(I, m, r, {d}, l, addr, k)
               /\ pc[I] = "msg2" /\ m.stage = "msg2"
               /\ d.stage = "msg3" /\ Says(d) = r.reply
               /\ addr = IF Heard(m) = NoAddr THEN external_addr[I] ELSE Heard(m)
               /\ l = IF addr = NoAddr THEN "failed"
                      ELSE IF r.state.finished THEN Outcome(r.state) ELSE "negotiate"
<1>1. PICK m \in wire[I] :
          \E turn \in {Turn(I, m)} :
            LET adr == IF turn.external_addr = NoAddr THEN external_addr[I]
                       ELSE turn.external_addr IN
            /\ turn.ok
            /\ Transfer(I, m, {HandshakeMessage("msg3", turn.reply, NoAddr)})
            /\ negotiate' = [negotiate EXCEPT ![I] = turn.state]
            /\ external_addr' = [external_addr EXCEPT ![I] = adr]
            /\ Goto(I, IF adr = NoAddr THEN "failed"
                       ELSE IF turn.state.finished THEN Outcome(turn.state) ELSE "negotiate")
  BY DEF InitiatorHandshake
<1>2. I \in Sides
  BY DEF Sides
<1>3. Turn(I, m).ok
  BY <1>1
<1>4. PICK r :
          /\ m \in Datagram /\ Readable(I, m) /\ Says(m) \in Neg /\ Heard(m) \in Located
          /\ r = HandleMessage(negotiate[I], protocols[I], Says(m)) /\ r.ok
          /\ r.state \in State /\ r.reply \in Neg
          /\ Turn(I, m).state = r.state /\ Turn(I, m).reply = r.reply
          /\ Turn(I, m).external_addr = Heard(m)
  BY <1>2, <1>3, TurnStep, Zenon
<1>5. PICK d, addr, k :
          /\ d = HandshakeMessage("msg3", r.reply, NoAddr)
          /\ addr = IF Heard(m) = NoAddr THEN external_addr[I] ELSE Heard(m)
          /\ k = nonce[I]
  OBVIOUS
<1>6. PICK l : l = IF addr = NoAddr THEN "failed"
                   ELSE IF r.state.finished THEN Outcome(r.state) ELSE "negotiate"
  OBVIOUS
<1>7. /\ external_addr[I] \in Located /\ nonce[I] \in Nat /\ NoAddr \in Located
  BY <1>2, Parts
<1>8. d \in Datagram /\ d.stage = "msg3" /\ Says(d) = r.reply
  BY <1>4, <1>5, <1>7, HandshakeSent
<1>9. l \in Waiting \cup Ended
  BY <1>4, <1>6, Outcomes DEF Waiting, Ended
<1>10. addr \in Located /\ k \in Nat
  BY <1>4, <1>5, <1>7
<1>11. /\ Transfer(I, m, {d}) /\ negotiate' = [negotiate EXCEPT ![I] = r.state]
       /\ external_addr' = [external_addr EXCEPT ![I] = addr]
       /\ pc' = [pc EXCEPT ![I] = l]
  BY <1>1, <1>4, <1>5, <1>6 DEF Goto
<1>12. protocols' = protocols /\ nonce' = [nonce EXCEPT ![I] = k] /\ pc[I] = "msg2"
  BY <1>2, <1>5 DEF InitiatorHandshake, TypeOK
<1>13. m.stage = "msg2"
  BY <1>4, <1>12 DEF Readable
<1>14. {d} \in SUBSET Datagram
  BY <1>8
<1>15. Takes(I, m, r, {d}, l, addr, k)
  BY <1>1, <1>4, <1>9, <1>10, <1>11, <1>12, <1>14 DEF Takes
<1>16. QED
  BY <1>5, <1>6, <1>8, <1>12, <1>13, <1>15, Zenon
\* The rest of the negotiation at the initiator.
LEMMA InitiatorNegotiateStep ==
    ASSUME TypeOK, InitiatorNegotiate
    PROVE  \E m, r, out, l, addr, k :
               /\ Takes(I, m, r, out, l, addr, k)
               /\ pc[I] = "negotiate" /\ m.stage = "transport"
               /\ addr = external_addr[I]
               /\ \/ r.reply = NoMessage /\ out = {} /\ l = Outcome(r.state)
                  \/ /\ r.reply # NoMessage
                     /\ \E d : out = {d} /\ d.stage = "transport" /\ Says(d) = r.reply
                     /\ l = IF r.state.finished THEN Outcome(r.state) ELSE "negotiate"
<1>1. PICK m \in wire[I] :
          \E turn \in {Turn(I, m)} :
            LET over == turn.reply = NoMessage IN
            /\ turn.ok
            /\ Transfer(I, m, IF over THEN {} ELSE {TransportMessage(I, turn.reply, NoAddr)})
            /\ nonce' = [nonce EXCEPT ![I] = IF over THEN @ ELSE @ + 1]
            /\ negotiate' = [negotiate EXCEPT ![I] = turn.state]
            /\ Goto(I, IF over \/ turn.state.finished THEN Outcome(turn.state) ELSE "negotiate")
  BY DEF InitiatorNegotiate
<1>2. I \in Sides
  BY DEF Sides
<1>3. Turn(I, m).ok
  BY <1>1
<1>4. PICK r :
          /\ m \in Datagram /\ Readable(I, m) /\ Says(m) \in Neg /\ Heard(m) \in Located
          /\ r = HandleMessage(negotiate[I], protocols[I], Says(m)) /\ r.ok
          /\ r.state \in State /\ r.reply \in Neg
          /\ Turn(I, m).state = r.state /\ Turn(I, m).reply = r.reply
          /\ Turn(I, m).external_addr = Heard(m)
  BY <1>2, <1>3, TurnStep, Zenon
<1>5. PICK d, addr : /\ d = TransportMessage(I, r.reply, NoAddr)
                     /\ addr = external_addr[I]
  OBVIOUS
<1>6. PICK out, l, k :
          /\ out = IF r.reply = NoMessage THEN {} ELSE {d}
          /\ l = IF r.reply = NoMessage \/ r.state.finished THEN Outcome(r.state) ELSE "negotiate"
          /\ k = IF r.reply = NoMessage THEN nonce[I] ELSE nonce[I] + 1
  OBVIOUS
<1>7. addr \in Located /\ nonce[I] \in Nat /\ NoAddr \in Located
  BY <1>2, <1>5, Parts
<1>8. d \in Datagram /\ d.stage = "transport" /\ Says(d) = r.reply
  BY <1>2, <1>4, <1>5, <1>7, TransportSent
<1>9. l \in Waiting \cup Ended
  BY <1>4, <1>6, Outcomes DEF Waiting, Ended
<1>10. k \in Nat /\ out \in SUBSET Datagram
  BY <1>6, <1>7, <1>8
<1>11. /\ Transfer(I, m, out) /\ negotiate' = [negotiate EXCEPT ![I] = r.state]
       /\ nonce' = [nonce EXCEPT ![I] = k] /\ pc' = [pc EXCEPT ![I] = l]
  BY <1>1, <1>4, <1>5, <1>6 DEF Goto
<1>12. /\ protocols' = protocols /\ pc[I] = "negotiate"
       /\ external_addr' = [external_addr EXCEPT ![I] = addr]
  BY <1>2, <1>5 DEF InitiatorNegotiate, TypeOK
<1>13. m.stage = "transport"
  BY <1>4, <1>12 DEF Readable
<1>14. Takes(I, m, r, out, l, addr, k)
  BY <1>1, <1>4, <1>7, <1>9, <1>10, <1>11, <1>12 DEF Takes
<1>15. \/ r.reply = NoMessage /\ out = {} /\ l = Outcome(r.state)
       \/ /\ r.reply # NoMessage
          /\ \E e : out = {e} /\ e.stage = "transport" /\ Says(e) = r.reply
          /\ l = IF r.state.finished THEN Outcome(r.state) ELSE "negotiate"
  BY <1>6, <1>8
<1>16. QED
  BY <1>5, <1>12, <1>13, <1>14, <1>15, Zenon

\* The first message of the handshake at the responder.
LEMMA ResponderHandshakeStep ==
    ASSUME TypeOK, ResponderHandshake
    PROVE  \E m, r, d, k :
               /\ Takes(R, m, r, {d}, "msg3", NoAddr, k)
               /\ pc[R] = "msg1" /\ m.stage = "msg1"
               /\ d.stage = "msg2" /\ Says(d) = r.reply /\ Heard(d) = external_addr[R]
<1>1. PICK m \in wire[R] :
          \E turn \in {Turn(R, m)} :
            /\ turn.ok
            /\ Transfer(R, m, {HandshakeMessage("msg2", turn.reply, external_addr[R])})
            /\ negotiate' = [negotiate EXCEPT ![R] = turn.state]
            /\ external_addr' = [external_addr EXCEPT ![R] = NoAddr]
  BY DEF ResponderHandshake
<1>2. R \in Sides
  BY DEF Sides
<1>3. Turn(R, m).ok
  BY <1>1
<1>4. PICK r :
          /\ m \in Datagram /\ Readable(R, m) /\ Says(m) \in Neg /\ Heard(m) \in Located
          /\ r = HandleMessage(negotiate[R], protocols[R], Says(m)) /\ r.ok
          /\ r.state \in State /\ r.reply \in Neg
          /\ Turn(R, m).state = r.state /\ Turn(R, m).reply = r.reply
          /\ Turn(R, m).external_addr = Heard(m)
  BY <1>2, <1>3, TurnStep, Zenon
<1>5. PICK d, k : /\ d = HandshakeMessage("msg2", r.reply, external_addr[R])
                  /\ k = nonce[R]
  OBVIOUS
<1>6. PICK addr : addr = external_addr[R]
  OBVIOUS
<1>7. addr \in Located /\ k \in Nat /\ NoAddr \in Located
  BY <1>2, <1>5, <1>6, Parts
<1>8. d \in Datagram /\ d.stage = "msg2" /\ Says(d) = r.reply /\ Heard(d) = addr
  BY <1>4, <1>5, <1>6, <1>7, HandshakeSent DEF Heard
<1>9. "msg3" \in Waiting \cup Ended
  BY DEF Waiting
<1>10. {d} \in SUBSET Datagram
  BY <1>8
<1>11. /\ Transfer(R, m, {d}) /\ negotiate' = [negotiate EXCEPT ![R] = r.state]
       /\ external_addr' = [external_addr EXCEPT ![R] = NoAddr]
  BY <1>1, <1>4, <1>5
<1>12. /\ protocols' = protocols /\ pc[R] = "msg1" /\ pc' = [pc EXCEPT ![R] = "msg3"]
       /\ nonce' = [nonce EXCEPT ![R] = k]
  BY <1>2, <1>5 DEF ResponderHandshake, TypeOK, Goto
<1>13. m.stage = "msg1"
  BY <1>4, <1>12 DEF Readable
<1>14. Takes(R, m, r, {d}, "msg3", NoAddr, k)
  BY <1>1, <1>4, <1>7, <1>9, <1>10, <1>11, <1>12 DEF Takes
<1>15. QED
  BY <1>6, <1>8, <1>12, <1>13, <1>14, Zenon

\* The third message of the handshake and the rest of the negotiation at the responder.
LEMMA ResponderNegotiateStep ==
    ASSUME TypeOK, ResponderNegotiate
    PROVE  \E m, r, out, l, addr, k :
               /\ Takes(R, m, r, out, l, addr, k)
               /\ \/ pc[R] = "msg3" /\ m.stage = "msg3"
                  \/ pc[R] = "negotiate" /\ m.stage = "transport"
               /\ \/ r.reply = NoMessage /\ out = {} /\ l = Outcome(r.state)
                  \/ /\ r.reply # NoMessage
                     /\ \E d : out = {d} /\ d.stage = "transport" /\ Says(d) = r.reply
                     /\ l = IF r.state.finished THEN Outcome(r.state) ELSE "negotiate"
<1>1. PICK m \in wire[R] :
          \E turn \in {Turn(R, m)} :
            LET over == turn.reply = NoMessage IN
            /\ turn.ok
            /\ Transfer(R, m, IF over THEN {}
                              ELSE {TransportMessage(R, turn.reply, external_addr[R])})
            /\ nonce' = [nonce EXCEPT ![R] = IF over THEN @ ELSE @ + 1]
            /\ negotiate' = [negotiate EXCEPT ![R] = turn.state]
            /\ external_addr' = [external_addr EXCEPT ![R] = IF over THEN @ ELSE NoAddr]
            /\ Goto(R, IF over \/ turn.state.finished THEN Outcome(turn.state) ELSE "negotiate")
  BY DEF ResponderNegotiate
<1>2. R \in Sides
  BY DEF Sides
<1>3. Turn(R, m).ok
  BY <1>1
<1>4. PICK r :
          /\ m \in Datagram /\ Readable(R, m) /\ Says(m) \in Neg /\ Heard(m) \in Located
          /\ r = HandleMessage(negotiate[R], protocols[R], Says(m)) /\ r.ok
          /\ r.state \in State /\ r.reply \in Neg
          /\ Turn(R, m).state = r.state /\ Turn(R, m).reply = r.reply
          /\ Turn(R, m).external_addr = Heard(m)
  BY <1>2, <1>3, TurnStep, Zenon
<1>5. PICK d, held : /\ d = TransportMessage(R, r.reply, external_addr[R])
                     /\ held = external_addr[R]
  OBVIOUS
<1>6. PICK out, l, k, addr :
          /\ out = IF r.reply = NoMessage THEN {} ELSE {d}
          /\ l = IF r.reply = NoMessage \/ r.state.finished THEN Outcome(r.state) ELSE "negotiate"
          /\ k = IF r.reply = NoMessage THEN nonce[R] ELSE nonce[R] + 1
          /\ addr = IF r.reply = NoMessage THEN external_addr[R] ELSE NoAddr
  OBVIOUS
<1>7. held \in Located /\ addr \in Located /\ nonce[R] \in Nat
  BY <1>2, <1>5, <1>6, Parts
<1>8. d \in Datagram /\ d.stage = "transport" /\ Says(d) = r.reply
  BY <1>2, <1>4, <1>5, <1>7, TransportSent
<1>9. l \in Waiting \cup Ended
  BY <1>4, <1>6, Outcomes DEF Waiting, Ended
<1>10. k \in Nat /\ out \in SUBSET Datagram
  BY <1>6, <1>7, <1>8
<1>11. /\ Transfer(R, m, out) /\ negotiate' = [negotiate EXCEPT ![R] = r.state]
       /\ nonce' = [nonce EXCEPT ![R] = k] /\ pc' = [pc EXCEPT ![R] = l]
       /\ external_addr' = [external_addr EXCEPT ![R] = addr]
  BY <1>1, <1>4, <1>5, <1>6 DEF Goto
<1>12. protocols' = protocols /\ pc[R] \in {"msg3", "negotiate"}
  BY DEF ResponderNegotiate
<1>13. \/ pc[R] = "msg3" /\ m.stage = "msg3"
       \/ pc[R] = "negotiate" /\ m.stage = "transport"
  BY <1>4, <1>12 DEF Readable
<1>14. Takes(R, m, r, out, l, addr, k)
  BY <1>1, <1>4, <1>7, <1>9, <1>10, <1>11, <1>12 DEF Takes
<1>15. \/ r.reply = NoMessage /\ out = {} /\ l = Outcome(r.state)
       \/ /\ r.reply # NoMessage
          /\ \E e : out = {e} /\ e.stage = "transport" /\ Says(e) = r.reply
          /\ l = IF r.state.finished THEN Outcome(r.state) ELSE "negotiate"
  BY <1>6, <1>8
<1>16. QED
  BY <1>13, <1>14, <1>15, Zenon

\* The first message.
LEMMA DialStep ==
    ASSUME TypeOK, Dial
    PROVE  \E first, d :
               /\ pc[I] = "start" /\ first = Propose(New, protocols[I])
               /\ first.state \in State /\ first.reply \in Neg
               /\ d \in Datagram /\ d.stage = "msg1" /\ Says(d) = first.reply
               /\ negotiate' = [negotiate EXCEPT ![I] = first.state]
               /\ wire' = [wire EXCEPT ![R] = @ \cup {d}]
               /\ pc' = [pc EXCEPT ![I] = "msg2"]
               /\ UNCHANGED <<protocols, external_addr, nonce, lost, duplicated, io_errors>>
<1>1. PICK first, list, n : first = Propose(New, list) /\ list = protocols[I] /\ n = New
  OBVIOUS
<1>2. n \in State /\ list \in Seq(Protocol) /\ first = Propose(n, list) /\ NoAddr \in Located
  BY <1>1, Parts DEF New, State, Sides
<1>3. first.state \in State /\ first.reply \in AnyMessage
  BY <1>2, ProposeStep DEF Proposes
<1>4. first.reply \in Neg
  BY <1>1, <1>3 DEF Dial, Neg, AnyMessage
<1>5. PICK d : d = HandshakeMessage("msg1", first.reply, NoAddr)
  OBVIOUS
<1>6. d \in Datagram /\ d.stage = "msg1" /\ Says(d) = first.reply
  BY <1>2, <1>4, <1>5, HandshakeSent
<1>7. /\ negotiate' = [negotiate EXCEPT ![I] = first.state]
      /\ wire' = [wire EXCEPT ![R] = @ \cup {d}]
      /\ pc' = [pc EXCEPT ![I] = "msg2"] /\ pc[I] = "start"
      /\ UNCHANGED <<protocols, external_addr, nonce, lost, duplicated, io_errors>>
  BY <1>1, <1>5 DEF Dial, Goto, faults
<1>8. QED
  BY <1>1, <1>3, <1>4, <1>6, <1>7

\* What taking a datagram changes, side by side.
Taken(s, m, r, out, l, addr) ==
    /\ negotiate'[s] = r.state /\ negotiate'[Peer(s)] = negotiate[Peer(s)]
    /\ pc'[s] = l /\ pc'[Peer(s)] = pc[Peer(s)]
    /\ external_addr'[s] = addr /\ external_addr'[Peer(s)] = external_addr[Peer(s)]
    /\ protocols' = protocols
    /\ wire'[s] \subseteq wire[s] /\ wire'[Peer(s)] = wire[Peer(s)] \cup out
    /\ \/ duplicated' = duplicated /\ wire'[s] = wire[s] \ {m}
       \/ duplicated' # 0

\* A step that takes a message keeps the types, and has the effect Taken says.
LEMMA TakesStep ==
    ASSUME TypeOK, NEW s \in Sides, NEW m, NEW r, NEW out, NEW l, NEW addr, NEW k,
           Takes(s, m, r, out, l, addr, k)
    PROVE  TypeOK' /\ Taken(s, m, r, out, l, addr)
<1>1. /\ protocols \in [Sides -> ProtocolLists]
      /\ pc \in [Sides -> {"start"} \cup Waiting \cup Ended]
      /\ negotiate \in [Sides -> State]
      /\ external_addr \in [Sides -> Located]
      /\ nonce \in [Sides -> Nat]
      /\ Peer(s) \in Sides /\ Peer(s) # s
  BY Two DEF TypeOK, Located
<1>2. /\ r.state \in State /\ out \in SUBSET Datagram /\ Transfer(s, m, out)
      /\ l \in Waiting \cup Ended /\ addr \in Located /\ k \in Nat
      /\ protocols' = protocols
      /\ negotiate' = [negotiate EXCEPT ![s] = r.state]
      /\ pc' = [pc EXCEPT ![s] = l]
      /\ external_addr' = [external_addr EXCEPT ![s] = addr]
      /\ nonce' = [nonce EXCEPT ![s] = k]
  BY DEF Takes
<1>3. /\ wire' \in [Sides -> SUBSET Datagram]
      /\ wire'[s] \subseteq wire[s] /\ wire'[Peer(s)] = wire[Peer(s)] \cup out
      /\ lost' \in 0..MaxLost /\ duplicated' \in 0..MaxDuplicated
      /\ io_errors' \in 0..MaxIoErrors
      /\ \/ duplicated' = duplicated /\ wire'[s] = wire[s] \ {m}
         \/ duplicated' # 0
  BY <1>2, TransferStep
<1>4. /\ negotiate' \in [Sides -> State]
      /\ negotiate'[s] = r.state /\ negotiate'[Peer(s)] = negotiate[Peer(s)]
  BY <1>1, <1>2
<1>5. /\ pc' \in [Sides -> {"start"} \cup Waiting \cup Ended]
      /\ pc'[s] = l /\ pc'[Peer(s)] = pc[Peer(s)]
  BY <1>1, <1>2
<1>6. /\ external_addr' \in [Sides -> Located]
      /\ external_addr'[s] = addr /\ external_addr'[Peer(s)] = external_addr[Peer(s)]
      /\ nonce' \in [Sides -> Nat]
  BY <1>1, <1>2
<1>7. TypeOK'
  BY <1>1, <1>2, <1>3, <1>4, <1>5, <1>6 DEF TypeOK, Located
<1>8. QED
  BY <1>2, <1>3, <1>4, <1>5, <1>6, <1>7 DEF Taken

\* Nothing is sent and no negotiation moves; a side may have failed.
Wanes ==
    /\ TypeOK'
    /\ UNCHANGED <<protocols, negotiate, external_addr>>
    /\ \A s \in Sides : wire'[s] \subseteq wire[s] /\ (pc'[s] = pc[s] \/ pc'[s] = "failed")
    /\ duplicated' = duplicated \/ duplicated' # 0

\* The errors and the losses.
LEMMA WaneStep ==
    ASSUME TypeOK, NEW s \in Sides,
           DialFails \/ Refuse(s) \/ IoError(s) \/ Lose(s) \/ UNCHANGED vars
    PROVE  Wanes
<1>1. /\ protocols \in [Sides -> ProtocolLists]
      /\ pc \in [Sides -> {"start"} \cup Waiting \cup Ended]
      /\ negotiate \in [Sides -> State]
      /\ external_addr \in [Sides -> Located]
      /\ nonce \in [Sides -> Nat]
      /\ wire \in [Sides -> SUBSET Datagram]
      /\ lost \in 0..MaxLost /\ duplicated \in 0..MaxDuplicated
      /\ io_errors \in 0..MaxIoErrors
      /\ I \in Sides /\ MaxLost \in Nat /\ MaxDuplicated \in Nat /\ MaxIoErrors \in Nat
  BY Two, HandshakeAssumption DEF TypeOK, Located
<1>2. ASSUME NEW t \in Sides, pc' = [pc EXCEPT ![t] = "failed"]
      PROVE  /\ pc' \in [Sides -> {"start"} \cup Waiting \cup Ended]
             /\ \A u \in Sides : pc'[u] = pc[u] \/ pc'[u] = "failed"
  <2>1. "failed" \in Ended
    BY DEF Ended
  <2>2. QED
    BY <1>1, <1>2, <2>1
<1>3. CASE DialFails
  <2>1. /\ pc' = [pc EXCEPT ![I] = "failed"]
        /\ UNCHANGED <<protocols, negotiate, external_addr, nonce, wire, lost, duplicated, io_errors>>
    BY <1>3 DEF DialFails, Goto, faults
  <2>2. TypeOK'
    BY <1>1, <1>2, <2>1 DEF TypeOK, Located
  <2>3. QED
    BY <1>1, <1>2, <2>1, <2>2 DEF Wanes
<1>4. CASE Refuse(s)
  <2>1. PICK m \in wire[s] : Transfer(s, m, {})
    BY <1>4 DEF Refuse
  <2>2. PICK out : out = {}
    OBVIOUS
  <2>3. Transfer(s, m, out) /\ out \in SUBSET Datagram
    BY <2>1, <2>2
  <2>4. /\ wire' \in [Sides -> SUBSET Datagram] /\ lost' \in 0..MaxLost
        /\ duplicated' \in 0..MaxDuplicated /\ io_errors' \in 0..MaxIoErrors
        /\ wire'[s] \subseteq wire[s] /\ wire'[Peer(s)] = wire[Peer(s)] \cup out
        /\ duplicated' = duplicated \/ duplicated' # 0
    BY <2>3, TransferStep
  <2>5. \A u \in Sides : wire'[u] \subseteq wire[u]
    BY <2>2, <2>4, Two
  <2>6. /\ pc' = [pc EXCEPT ![s] = "failed"]
        /\ UNCHANGED <<protocols, negotiate, external_addr, nonce>>
    BY <1>4 DEF Refuse, Goto
  <2>7. TypeOK'
    BY <1>1, <1>2, <2>4, <2>6 DEF TypeOK, Located
  <2>8. QED
    BY <1>2, <2>4, <2>5, <2>6, <2>7 DEF Wanes
<1>5. CASE IoError(s)
  <2>1. /\ pc' = [pc EXCEPT ![s] = "failed"]
        /\ io_errors < MaxIoErrors /\ io_errors' = io_errors + 1
        /\ UNCHANGED <<protocols, negotiate, external_addr, nonce, wire, lost, duplicated>>
    BY <1>5 DEF IoError, Goto
  <2>2. io_errors' \in 0..MaxIoErrors
    BY <1>1, <2>1
  <2>3. TypeOK'
    BY <1>1, <1>2, <2>1, <2>2 DEF TypeOK, Located
  <2>4. QED
    BY <1>1, <1>2, <2>1, <2>3 DEF Wanes
<1>6. CASE Lose(s)
  <2>1. PICK m \in wire[s] : wire' = [wire EXCEPT ![s] = @ \ {m}]
    BY <1>6 DEF Lose
  <2>2. /\ lost < MaxLost /\ lost' = lost + 1
        /\ UNCHANGED <<protocols, pc, negotiate, external_addr, nonce, duplicated, io_errors>>
    BY <1>6 DEF Lose
  <2>3. lost' \in 0..MaxLost
    BY <1>1, <2>2
  <2>4. wire' \in [Sides -> SUBSET Datagram] /\ \A u \in Sides : wire'[u] \subseteq wire[u]
    BY <1>1, <2>1
  <2>5. TypeOK'
    BY <1>1, <2>2, <2>3, <2>4 DEF TypeOK, Located
  <2>6. QED
    BY <2>2, <2>4, <2>5 DEF Wanes
<1>7. CASE UNCHANGED vars
  <2>1. UNCHANGED <<protocols, pc, negotiate, external_addr, nonce, wire, lost, duplicated, io_errors>>
    BY <1>7 DEF vars, faults
  <2>2. TypeOK'
    BY <1>1, <2>1 DEF TypeOK, Located
  <2>3. QED
    BY <2>1, <2>2 DEF Wanes
<1>8. QED
  BY <1>3, <1>4, <1>5, <1>6, <1>7

\* The steps, sorted by what they do to the negotiations.
LEMMA Steps ==
    ASSUME TypeOK, [Next]_vars
    PROVE  \/ Dial \/ InitiatorHandshake \/ InitiatorNegotiate
           \/ ResponderHandshake \/ ResponderNegotiate \/ Wanes
<1>1. I \in Sides /\ R \in Sides
  BY DEF Sides
<1>2. QED
  BY <1>1, WaneStep DEF Next, InitiatorStep, ResponderStep

-----------------------------------------------------------------------------
(***************************************************************************)
(* Type correctness.                                                       *)
(***************************************************************************)
LEMMA TypeInit ==
    ASSUME Init
    PROVE  TypeOK
<1>1. New \in State
  BY DEF New, State
<1>2. lost \in 0..MaxLost /\ duplicated \in 0..MaxDuplicated /\ io_errors \in 0..MaxIoErrors
  BY HandshakeAssumption DEF Init
<1>3. QED
  BY <1>1, <1>2, Two DEF Init, TypeOK, Waiting

\* Every step keeps the types.
LEMMA TypeStep ==
    ASSUME TypeOK, [Next]_vars
    PROVE  TypeOK'
<1>1. I \in Sides /\ R \in Sides
  BY DEF Sides
<1>2. CASE Dial
  <2>1. PICK first, d :
            /\ first.state \in State /\ d \in Datagram
            /\ negotiate' = [negotiate EXCEPT ![I] = first.state]
            /\ wire' = [wire EXCEPT ![R] = @ \cup {d}]
            /\ pc' = [pc EXCEPT ![I] = "msg2"]
            /\ UNCHANGED <<protocols, external_addr, nonce, lost, duplicated, io_errors>>
    BY <1>2, DialStep, Zenon
  <2>2. wire' \in [Sides -> SUBSET Datagram]
    BY <2>1 DEF TypeOK
  <2>3. negotiate' \in [Sides -> State] /\ pc' \in [Sides -> {"start"} \cup Waiting \cup Ended]
    BY <2>1 DEF TypeOK, Waiting
  <2>4. QED
    BY <2>1, <2>2, <2>3 DEF TypeOK
<1>3. CASE InitiatorHandshake
  BY <1>1, <1>3, InitiatorHandshakeStep, TakesStep, Zenon
<1>4. CASE InitiatorNegotiate
  BY <1>1, <1>4, InitiatorNegotiateStep, TakesStep, Zenon
<1>5. CASE ResponderHandshake
  BY <1>1, <1>5, ResponderHandshakeStep, TakesStep, Zenon
<1>6. CASE ResponderNegotiate
  BY <1>1, <1>6, ResponderNegotiateStep, TakesStep, Zenon
<1>7. CASE Wanes
  BY <1>7 DEF Wanes
<1>8. QED
  BY <1>2, <1>3, <1>4, <1>5, <1>6, <1>7, Steps

\* The type invariant, which says most where it speaks of the wire: every datagram in
\* flight is a packet that to_bytes has written, so from_bytes reads it.
THEOREM TypeCorrect == Spec => []TypeOK
BY TypeInit, TypeStep, PTL DEF Spec

-----------------------------------------------------------------------------
(***************************************************************************)
(* The initiator's address.                                                *)
(***************************************************************************)

\* The initiator has read the second message of the handshake with success.
Located_I == pc[I] \in {"negotiate", "done", "no_protocol", "panicked"} => external_addr[I] = Observed

\* A channel that dial returns knows the address under which the responder saw it: it
\* gives up on a second message without one, and the address comes out of from_bytes
\* as it went into to_bytes.
THEOREM AddressKnown == Spec => []AddressReported
<1>1. Init => Located_I
  BY Two DEF Init, Located_I
<1>2. ASSUME TypeOK, Located_I, [Next]_vars PROVE Located_I'
  <2>1. I \in Sides /\ R \in Sides /\ Peer(R) = I
    BY Two
  <2>2. CASE Dial
    BY <1>2, <2>1, <2>2 DEF Dial, Goto, TypeOK, Located_I
  <2>3. CASE InitiatorHandshake
    <3>1. PICK m, r, d, l, addr, k :
              /\ Takes(I, m, r, {d}, l, addr, k)
              /\ addr = IF Heard(m) = NoAddr THEN external_addr[I] ELSE Heard(m)
              /\ l = IF addr = NoAddr THEN "failed"
                     ELSE IF r.state.finished THEN Outcome(r.state) ELSE "negotiate"
      BY <1>2, <2>3, InitiatorHandshakeStep, Zenon
    <3>2. Taken(I, m, r, {d}, l, addr)
      BY <1>2, <2>1, <3>1, TakesStep, Zenon
    <3>3. addr \in {Observed, NoAddr}
      BY <3>1 DEF Takes, Located
    <3>4. QED
      BY <3>1, <3>2, <3>3 DEF Located_I, Taken
  <2>4. CASE InitiatorNegotiate
    <3>1. PICK m, r, out, l, addr, k :
              Takes(I, m, r, out, l, addr, k) /\ pc[I] = "negotiate" /\ addr = external_addr[I]
      BY <1>2, <2>4, InitiatorNegotiateStep, Zenon
    <3>2. Taken(I, m, r, out, l, addr)
      BY <1>2, <2>1, <3>1, TakesStep, Zenon
    <3>3. QED
      BY <1>2, <3>1, <3>2 DEF Located_I, Taken
  <2>5. CASE ResponderHandshake \/ ResponderNegotiate
    <3>1. PICK m, r, out, l, addr, k : Takes(R, m, r, out, l, addr, k)
      BY <1>2, <2>5, ResponderHandshakeStep, ResponderNegotiateStep, Zenon
    <3>2. Taken(R, m, r, out, l, addr)
      BY <1>2, <2>1, <3>1, TakesStep, Zenon
    <3>3. QED
      BY <1>2, <2>1, <3>2 DEF Located_I, Taken
  <2>6. CASE Wanes
    BY <1>2, <2>1, <2>6 DEF Wanes, Located_I
  <2>7. QED
    BY <1>2, <2>2, <2>3, <2>4, <2>5, <2>6, Steps
<1>3. Located_I => AddressReported
  BY DEF Located_I, AddressReported
<1>4. QED
  BY <1>1, <1>2, <1>3, TypeCorrect, PTL DEF Spec

-----------------------------------------------------------------------------
(***************************************************************************)
(* The assertion in into_protocol.                                         *)
(***************************************************************************)

\* What a negotiation n over a list makes of a message it does not refuse.
Handled(n, list, msg, r) ==
    \/ /\ msg.ty = "propose" /\ n.accepted = NoProtocol /\ msg.protocol \in Members(list)
       /\ r.state.accepted = msg.protocol /\ r.state.finished = TRUE
       /\ r.reply = Accept
    \/ /\ msg.ty = "propose" /\ n.accepted = NoProtocol /\ msg.protocol \notin Members(list)
       /\ n.tried + 1 \in DOMAIN list
       /\ r.state.tried = n.tried + 1 /\ r.state.proposed = list[n.tried + 1]
       /\ r.state.accepted = NoProtocol /\ r.state.finished = n.finished
       /\ r.reply = Proposal(list[n.tried + 1])
    \/ /\ msg.ty = "propose" /\ n.accepted = NoProtocol /\ msg.protocol \notin Members(list)
       /\ n.tried + 1 \notin DOMAIN list
       /\ r.state.accepted = NoProtocol /\ r.state.finished = TRUE
       /\ r.reply = Fail
    \/ /\ msg = Accept
       /\ r.state.accepted = n.proposed /\ r.state.finished = TRUE
       /\ r.reply = NoMessage
    \/ /\ msg = Fail
       /\ r.state.accepted = n.accepted /\ r.state.finished = TRUE
       /\ r.reply = NoMessage
    \/ /\ msg = NoMessage
       /\ r.state = n
       /\ r.reply = NoMessage

\* A step that takes a message changes the negotiation as message does.
LEMMA HandledStep ==
    ASSUME TypeOK, NEW s \in Sides, NEW m, NEW r, NEW out, NEW l, NEW addr, NEW k,
           Takes(s, m, r, out, l, addr, k)
    PROVE  Handled(negotiate[s], protocols[s], Says(m), r)
<1>1. /\ negotiate[s] \in State /\ protocols[s] \in Seq(Protocol)
      /\ Says(m) \in AnyMessage /\ r.ok
      /\ r = HandleMessage(negotiate[s], protocols[s], Says(m))
  BY Parts DEF Takes, Neg, AnyMessage
<1>2. PICK n \in State, list \in Seq(Protocol), msg \in AnyMessage :
          n = negotiate[s] /\ list = protocols[s] /\ msg = Says(m)
  BY <1>1
<1>3. Handles(n, list, msg, r) /\ r.ok
  BY <1>1, <1>2, HandleStep
<1>4. Handled(n, list, msg, r)
  BY <1>3 DEF Handles, Handled, Proposes
<1>5. QED
  BY <1>2, <1>4

\* Who answers nothing was told nothing or has finished; who answers without a
\* proposal has finished; and what has finished stays so.
LEMMA Answers ==
    ASSUME TypeOK, NEW s \in Sides, NEW m, NEW r, NEW out, NEW l, NEW addr, NEW k,
           Takes(s, m, r, out, l, addr, k)
    PROVE  /\ negotiate[s].finished => r.state.finished
           /\ r.reply = NoMessage => /\ Says(m).ty # "propose"
                                     /\ Says(m) # NoMessage => r.state.finished
           /\ r.reply # NoMessage => r.reply.ty = "propose" \/ r.state.finished
<1>1. Handled(negotiate[s], protocols[s], Says(m), r)
  BY HandledStep, Zenon
<1>2. /\ Accept # NoMessage /\ Fail # NoMessage /\ Accept.ty # "propose" /\ Fail.ty # "propose"
      /\ NoMessage.ty # "propose"
      /\ \A p : Proposal(p) # NoMessage /\ Proposal(p).ty = "propose"
  BY DEF Accept, Fail, NoMessage, Proposal
<1>3. QED
  BY <1>1, <1>2 DEF Handled

\* No negotiation message is missing where one is needed: transport messages and
\* the first message of the handshake carry one; the second carries a proposal and
\* the third carries any, unless the responder's negotiation has finished.
AssertInv ==
    /\ AssertionHolds
    /\ \A s \in Sides : \A m \in wire[s] :
        /\ m.stage \in {"msg1", "transport"} => Says(m) # NoMessage
        /\ m.stage = "msg2" => Says(m).ty = "propose" \/ negotiate[R].finished
        /\ m.stage = "msg3" => Says(m) # NoMessage \/ negotiate[R].finished

\* The assertion in into_protocol never fails: both loops are left with the
\* negotiation finished, whatever is lost, late or delivered again.
THEOREM NeverPanics == Spec => []AssertionHolds
<1>1. Init => AssertInv
  BY Two DEF Init, AssertInv, AssertionHolds
<1>2. ASSUME TypeOK, AssertInv, [Next]_vars PROVE AssertInv'
  <2>1. I \in Sides /\ R \in Sides /\ Peer(R) = I /\ Peer(I) = R /\ I # R /\ Sides = {I, R}
    BY Two
  <2>2. CASE Dial
    <3>1. PICK first, d :
              /\ first = Propose(New, protocols[I])
              /\ d.stage = "msg1" /\ Says(d) = first.reply
              /\ negotiate' = [negotiate EXCEPT ![I] = first.state]
              /\ wire' = [wire EXCEPT ![R] = @ \cup {d}]
              /\ pc' = [pc EXCEPT ![I] = "msg2"]
      BY <1>2, <2>2, DialStep, Zenon
    <3>2. Says(d) # NoMessage
      <4>1. New \in State /\ protocols[I] \in Seq(Protocol)
        BY <1>2, <2>1, Parts DEF New, State
      <4>2. PICK n \in State, list \in Seq(Protocol) : n = New /\ list = protocols[I]
        BY <4>1
      <4>3. Proposes(n, list, first)
        BY <3>1, <4>2, ProposeStep
      <4>4. PICK p : first.reply = Fail \/ first.reply = Proposal(p)
        BY <4>3 DEF Proposes
      <4>5. Fail.ty # NoMessage.ty /\ Proposal(p).ty # NoMessage.ty
        BY DEF Fail, Proposal, NoMessage
      <4>6. QED
        BY <3>1, <4>4, <4>5, Zenon
    <3>3. /\ wire'[I] = wire[I] /\ wire'[R] = wire[R] \cup {d} /\ negotiate'[R] = negotiate[R]
          /\ pc'[I] = "msg2" /\ pc'[R] = pc[R]
      BY <1>2, <2>1, <3>1 DEF TypeOK
    <3>4. QED
      BY <1>2, <2>1, <3>1, <3>2, <3>3 DEF AssertInv, AssertionHolds
  <2>3. CASE InitiatorHandshake
    <3>1. PICK m, r, d, l, addr, k :
              /\ Takes(I, m, r, {d}, l, addr, k)
              /\ m.stage = "msg2" /\ d.stage = "msg3" /\ Says(d) = r.reply
              /\ l = IF addr = NoAddr THEN "failed"
                     ELSE IF r.state.finished THEN Outcome(r.state) ELSE "negotiate"
      BY <1>2, <2>3, InitiatorHandshakeStep, Zenon
    <3>2. Taken(I, m, r, {d}, l, addr) /\ m \in wire[I] /\ r.state \in State
      BY <1>2, <2>1, <3>1, TakesStep, Zenon DEF Takes
    <3>3. r.reply = NoMessage => Says(m).ty # "propose"
      BY <1>2, <2>1, <3>1, Answers, Zenon
    <3>4. l # "panicked"
      BY <3>1, <3>2, Outcomes
    <3>5. Says(d) # NoMessage \/ negotiate[R].finished
      BY <1>2, <2>1, <3>1, <3>2, <3>3 DEF AssertInv
    <3>6. QED
      BY <1>2, <2>1, <3>1, <3>2, <3>4, <3>5 DEF AssertInv, AssertionHolds, Taken
  <2>4. CASE InitiatorNegotiate
    <3>1. PICK m, r, out, l, addr, k :
              /\ Takes(I, m, r, out, l, addr, k)
              /\ m.stage = "transport"
              /\ \/ r.reply = NoMessage /\ out = {} /\ l = Outcome(r.state)
                 \/ /\ r.reply # NoMessage
                    /\ \E d : out = {d} /\ d.stage = "transport" /\ Says(d) = r.reply
                    /\ l = IF r.state.finished THEN Outcome(r.state) ELSE "negotiate"
      BY <1>2, <2>4, InitiatorNegotiateStep, Zenon
    <3>2. Taken(I, m, r, out, l, addr) /\ m \in wire[I] /\ r.state \in State
      BY <1>2, <2>1, <3>1, TakesStep, Zenon DEF Takes
    <3>3. r.reply = NoMessage /\ Says(m) # NoMessage => r.state.finished
      BY <1>2, <2>1, <3>1, Answers, Zenon
    <3>4. l # "panicked"
      BY <1>2, <2>1, <3>1, <3>2, <3>3, Outcomes DEF AssertInv
    <3>5. \A d \in out : d.stage = "transport" /\ Says(d) # NoMessage
      BY <3>1
    <3>6. QED
      BY <1>2, <2>1, <3>2, <3>4, <3>5 DEF AssertInv, AssertionHolds, Taken
  <2>5. CASE ResponderHandshake
    <3>1. PICK m, r, d, k :
              /\ Takes(R, m, r, {d}, "msg3", NoAddr, k)
              /\ pc[R] = "msg1" /\ m.stage = "msg1"
              /\ d.stage = "msg2" /\ Says(d) = r.reply /\ Heard(d) = external_addr[R]
      BY <1>2, <2>5, ResponderHandshakeStep
    <3>2. Taken(R, m, r, {d}, "msg3", NoAddr) /\ m \in wire[R]
      BY <1>2, <2>1, <3>1, TakesStep, Zenon DEF Takes
    <3>3. /\ negotiate[R].finished => r.state.finished
          /\ r.reply = NoMessage => /\ Says(m).ty # "propose"
                                    /\ Says(m) # NoMessage => r.state.finished
          /\ r.reply # NoMessage => r.reply.ty = "propose" \/ r.state.finished
      BY <1>2, <2>1, <3>1, Answers, Zenon
    <3>4. Says(d).ty = "propose" \/ r.state.finished
      BY <1>2, <2>1, <3>1, <3>2, <3>3 DEF AssertInv
    <3>5. QED
      BY <1>2, <2>1, <3>1, <3>2, <3>3, <3>4 DEF AssertInv, AssertionHolds, Taken
  <2>6. CASE ResponderNegotiate
    <3>1. PICK m, r, out, l, addr, k :
              /\ Takes(R, m, r, out, l, addr, k)
              /\ m.stage \in {"msg3", "transport"}
              /\ \/ r.reply = NoMessage /\ out = {} /\ l = Outcome(r.state)
                 \/ /\ r.reply # NoMessage
                    /\ \E d : out = {d} /\ d.stage = "transport" /\ Says(d) = r.reply
                    /\ l = IF r.state.finished THEN Outcome(r.state) ELSE "negotiate"
      BY <1>2, <2>6, ResponderNegotiateStep, Zenon
    <3>2. Taken(R, m, r, out, l, addr) /\ m \in wire[R] /\ r.state \in State
      BY <1>2, <2>1, <3>1, TakesStep, Zenon DEF Takes
    <3>3. /\ negotiate[R].finished => r.state.finished
          /\ r.reply = NoMessage /\ Says(m) # NoMessage => r.state.finished
      BY <1>2, <2>1, <3>1, Answers, Zenon
    <3>4. Says(m) # NoMessage \/ negotiate[R].finished
      BY <1>2, <2>1, <3>1, <3>2 DEF AssertInv
    <3>5. l # "panicked"
      BY <3>1, <3>2, <3>3, <3>4, Outcomes
    <3>6. \A d \in out : d.stage = "transport" /\ Says(d) # NoMessage
      BY <3>1
    <3>7. QED
      BY <1>2, <2>1, <3>2, <3>3, <3>5, <3>6 DEF AssertInv, AssertionHolds, Taken
  <2>7. CASE Wanes
    BY <1>2, <2>1, <2>7 DEF Wanes, AssertInv, AssertionHolds
  <2>8. QED
    BY <1>2, <2>2, <2>3, <2>4, <2>5, <2>6, <2>7, Steps
<1>3. QED
  BY <1>1, <1>2, TypeCorrect, PTL DEF Spec, AssertInv

-----------------------------------------------------------------------------
(***************************************************************************)
(* What a negotiation yields, from the lists a of the initiator and b of   *)
(* the responder, as long as no datagram is delivered twice.               *)
(***************************************************************************)

\* The j-th protocol of list a is in list b.
Meets(a, b, j) == j \in DOMAIN a /\ a[j] \in Members(b)

Disjoint(a, b) == Members(a) \cap Members(b) = {}

\* Preferred, as a property of the two lists.
Best(a, b, p) ==
    \E k \in DOMAIN a \cup DOMAIN b :
        /\ \A j \in 1..(k - 1) : ~ Meets(a, b, j) /\ ~ Meets(b, a, j)
        /\ \/ Meets(a, b, k) /\ p = a[k]
           \/ ~ Meets(a, b, k) /\ Meets(b, a, k) /\ p = b[k]

\* Negotiation n has come to the right end.
Settled(a, b, n) ==
    /\ n.finished
    /\ n.accepted = NoProtocol => Disjoint(a, b)
    /\ n.accepted # NoProtocol => Best(a, b, n.accepted)

\* Neither of the negotiations i and r has decided yet.
Open(i, r) == /\ ~ i.finished /\ ~ r.finished
              /\ i.accepted = NoProtocol /\ r.accepted = NoProtocol

\* An answer that decides, on its way from negotiation o to negotiation n.
Decides(a, b, n, o, msg) ==
    /\ Settled(a, b, o)
    /\ \/ msg = Accept /\ n.proposed # NoProtocol /\ Best(a, b, n.proposed)
       \/ msg = Fail /\ n.accepted = NoProtocol /\ Disjoint(a, b)
       \/ msg = NoMessage /\ Settled(a, b, n)

\* What may be on its way to the responder, and to the initiator, when the
\* negotiations are i and r: a proposal after rounds in which no list met the other.
ToResponder(a, b, i, r, msg) ==
    \/ /\ Open(i, r) /\ msg.ty = "propose"
       /\ i.tried \in DOMAIN a /\ i.proposed = a[i.tried] /\ msg.protocol = a[i.tried]
       /\ r.tried + 1 = i.tried
       /\ \A j \in 1..r.tried : ~ Meets(a, b, j) /\ ~ Meets(b, a, j)
    \/ Decides(a, b, r, i, msg)

ToInitiator(a, b, i, r, msg) ==
    \/ /\ Open(i, r) /\ msg.ty = "propose"
       /\ r.tried \in DOMAIN b /\ r.proposed = b[r.tried] /\ msg.protocol = b[r.tried]
       /\ i.tried = r.tried
       /\ \A j \in 1..i.tried : ~ Meets(a, b, j)
       /\ \A j \in 1..(i.tried - 1) : ~ Meets(b, a, j)
    \/ Decides(a, b, i, r, msg)

\* Before dial has sent anything, nothing has happened.
AtStart == pc[I] = "start" => /\ \A s \in Sides : wire[s] = {}
                              /\ negotiate[R] = New

\* At most one datagram is in flight, and it fits the two negotiations.
OneInFlight ==
    \A s \in Sides : \A m \in wire[s] : \A t \in Sides : \A d \in wire[t] : s = t /\ m = d
FitsResponder ==
    \A m \in wire[R] : ToResponder(protocols[I], protocols[R], negotiate[I], negotiate[R], Says(m))
FitsInitiator ==
    \A m \in wire[I] : ToInitiator(protocols[I], protocols[R], negotiate[I], negotiate[R], Says(m))

\* A side that has returned has come to the right end.
EndsRight(s) ==
    /\ pc[s] \in {"done", "no_protocol"} => Settled(protocols[I], protocols[R], negotiate[s])
    /\ pc[s] = "done" => negotiate[s].accepted # NoProtocol
    /\ pc[s] = "no_protocol" => negotiate[s].accepted = NoProtocol

FlightInv == /\ AtStart /\ OneInFlight
             /\ FitsResponder /\ FitsInitiator
             /\ EndsRight(I) /\ EndsRight(R)

ResultInv == duplicated = 0 => FlightInv

\* The messages are told apart by their types.
LEMMA Kinds ==
    /\ Accept.ty = "accept" /\ Fail.ty = "fail" /\ NoMessage.ty = "none"
    /\ \A p : Proposal(p).ty = "propose" /\ Proposal(p).protocol = p
    /\ Accept # NoMessage /\ Fail # NoMessage /\ Accept # Fail
    /\ \A p : Proposal(p) # NoMessage /\ Proposal(p) # Accept /\ Proposal(p) # Fail
BY DEF Accept, Fail, NoMessage, Proposal

\* A deciding answer brings the negotiation that reads it to the right end too.
LEMMA DecidedStep ==
    ASSUME NEW a, NEW b, NEW list, NEW n, NEW o, NEW msg, NEW x,
           Decides(a, b, n, o, msg), Handled(n, list, msg, x)
    PROVE  /\ x.reply = NoMessage /\ Settled(a, b, x.state) /\ Settled(a, b, o)
           /\ msg.ty # "propose"
<1>1. Settled(a, b, o) /\ (msg = Accept \/ msg = Fail \/ msg = NoMessage)
  BY DEF Decides
<1>2. msg.ty # "propose"
  BY <1>1, Kinds
<1>3. CASE msg = Accept
  <2>1. x.state.accepted = n.proposed /\ x.state.finished = TRUE /\ x.reply = NoMessage
    BY <1>2, <1>3, Kinds DEF Handled
  <2>2. n.proposed # NoProtocol /\ Best(a, b, n.proposed)
    BY <1>3, Kinds DEF Decides
  <2>3. QED
    BY <1>1, <1>2, <2>1, <2>2 DEF Settled
<1>4. CASE msg = Fail
  <2>1. x.state.accepted = n.accepted /\ x.state.finished = TRUE /\ x.reply = NoMessage
    BY <1>2, <1>4, Kinds DEF Handled
  <2>2. n.accepted = NoProtocol /\ Disjoint(a, b)
    BY <1>4, Kinds DEF Decides
  <2>3. QED
    BY <1>1, <1>2, <2>1, <2>2 DEF Settled
<1>5. CASE msg = NoMessage
  <2>1. x.state = n /\ x.reply = NoMessage
    BY <1>2, <1>5, Kinds DEF Handled
  <2>2. Settled(a, b, n)
    BY <1>5, Kinds DEF Decides
  <2>3. QED
    BY <1>1, <1>2, <2>1, <2>2
<1>6. QED
  BY <1>1, <1>3, <1>4, <1>5

\* A list that has run out without meeting the other one shares nothing with it.
LEMMA RunOut ==
    ASSUME NEW a \in Seq(Protocol), NEW b \in Seq(Protocol), NEW k \in Nat,
           k + 1 \notin DOMAIN a, \A j \in 1..k : ~ Meets(a, b, j)
    PROVE  Disjoint(a, b) /\ Disjoint(b, a)
<1>1. SUFFICES ASSUME NEW p, p \in Members(a), p \in Members(b) PROVE FALSE
  BY DEF Disjoint
<1>2. PICK j \in DOMAIN a : p = a[j]
  BY <1>1 DEF Members
<1>3. j \in 1..k
  BY <1>2
<1>4. Meets(a, b, j)
  BY <1>1, <1>2 DEF Meets
<1>5. QED
  BY <1>3, <1>4

\* The responder's turn: what it answers fits the negotiations again.
LEMMA ResponderTurn ==
    ASSUME NEW a \in Seq(Protocol), NEW b \in Seq(Protocol), NEW i \in State, NEW r \in State,
           NEW msg, NEW x, ToResponder(a, b, i, r, msg), Handled(r, b, msg, x)
    PROVE  /\ ToInitiator(a, b, i, x.state, x.reply)
           /\ x.reply = NoMessage \/ x.state.finished => Settled(a, b, x.state)
<1>1. CASE Decides(a, b, r, i, msg)
  <2>1. x.reply = NoMessage /\ Settled(a, b, x.state) /\ Settled(a, b, i)
    BY <1>1, DecidedStep, Zenon
  <2>2. Decides(a, b, i, x.state, x.reply)
    BY <2>1 DEF Decides
  <2>3. QED
    BY <2>1, <2>2 DEF ToInitiator
<1>2. CASE ~ Decides(a, b, r, i, msg)
  <2>1. /\ Open(i, r) /\ msg.ty = "propose"
        /\ i.tried \in DOMAIN a /\ i.proposed = a[i.tried] /\ msg.protocol = a[i.tried]
        /\ r.tried + 1 = i.tried
        /\ \A j \in 1..r.tried : ~ Meets(a, b, j) /\ ~ Meets(b, a, j)
    BY <1>2 DEF ToResponder
  <2>2. PICK k \in Nat, h \in Nat, q \in Protocol : k = i.tried /\ h = r.tried /\ q = a[k]
    BY <2>1 DEF State
  <2>3. /\ k = h + 1 /\ k - 1 = h /\ k \in DOMAIN a
        /\ i.proposed = q /\ msg.protocol = q /\ q # NoProtocol
        /\ \A j \in 1..h : ~ Meets(a, b, j) /\ ~ Meets(b, a, j)
    BY <2>1, <2>2, NoProtocolAssumption
  <2>4. PICK st, reply : st = x.state /\ reply = x.reply
    OBVIOUS
  <2>5. CASE q \in Members(b)
    <3>1. st.accepted = q /\ st.finished = TRUE /\ reply = Accept
      BY <2>1, <2>3, <2>4, <2>5, Kinds DEF Handled
    <3>2. Meets(a, b, k)
      BY <2>2, <2>3, <2>5 DEF Meets
    <3>3. Best(a, b, q)
      BY <2>2, <2>3, <3>2 DEF Best
    <3>4. Settled(a, b, st)
      BY <2>3, <3>1, <3>3 DEF Settled
    <3>5. Decides(a, b, i, st, reply)
      BY <2>3, <3>1, <3>3, <3>4 DEF Decides
    <3>6. QED
      BY <2>4, <3>4, <3>5 DEF ToInitiator
  <2>6. ~ Meets(a, b, k) \/ q \in Members(b)
    BY <2>2 DEF Meets
  <2>7. CASE q \notin Members(b) /\ k \in DOMAIN b
    <3>1. /\ st.tried = k /\ st.proposed = b[k] /\ st.accepted = NoProtocol
          /\ st.finished = r.finished /\ reply = Proposal(b[k])
      BY <2>1, <2>2, <2>3, <2>4, <2>7, Kinds DEF Handled
    <3>2. Open(i, st) /\ ~ st.finished
      BY <2>1, <3>1 DEF Open
    <3>3. reply.ty = "propose" /\ reply.protocol = b[k] /\ reply # NoMessage
      BY <3>1, Kinds
    <3>4. \A j \in 1..k : ~ Meets(a, b, j)
      <4>1. \A j \in 1..k : j \in 1..h \/ j = k
        BY <2>3
      <4>2. QED
        BY <2>3, <2>6, <2>7, <4>1
    <3>5. \A j \in 1..(k - 1) : ~ Meets(b, a, j)
      BY <2>3
    <3>6. ToInitiator(a, b, i, st, reply)
      BY <2>2, <2>7, <3>1, <3>2, <3>3, <3>4, <3>5 DEF ToInitiator
    <3>7. QED
      BY <2>4, <3>2, <3>3, <3>6
  <2>8. CASE q \notin Members(b) /\ k \notin DOMAIN b
    <3>1. st.accepted = NoProtocol /\ st.finished = TRUE /\ reply = Fail
      BY <2>1, <2>2, <2>3, <2>4, <2>8, Kinds DEF Handled
    <3>2. Disjoint(a, b)
      BY <2>3, <2>8, RunOut
    <3>3. Settled(a, b, st)
      BY <3>1, <3>2 DEF Settled
    <3>4. i.accepted = NoProtocol
      BY <2>1 DEF Open
    <3>5. Decides(a, b, i, st, reply)
      BY <3>1, <3>2, <3>3, <3>4 DEF Decides
    <3>6. QED
      BY <2>4, <3>3, <3>5 DEF ToInitiator
  <2>9. QED
    BY <2>5, <2>7, <2>8
<1>3. QED
  BY <1>1, <1>2

\* The initiator's turn.
LEMMA InitiatorTurn ==
    ASSUME NEW a \in Seq(Protocol), NEW b \in Seq(Protocol), NEW i \in State, NEW r \in State,
           NEW msg, NEW x, ToInitiator(a, b, i, r, msg), Handled(i, a, msg, x)
    PROVE  /\ ToResponder(a, b, x.state, r, x.reply)
           /\ x.reply = NoMessage \/ x.state.finished => Settled(a, b, x.state)
<1>1. CASE Decides(a, b, i, r, msg)
  <2>1. x.reply = NoMessage /\ Settled(a, b, x.state) /\ Settled(a, b, r)
    BY <1>1, DecidedStep, Zenon
  <2>2. Decides(a, b, r, x.state, x.reply)
    BY <2>1 DEF Decides
  <2>3. QED
    BY <2>1, <2>2 DEF ToResponder
<1>2. CASE ~ Decides(a, b, i, r, msg)
  <2>1. /\ Open(i, r) /\ msg.ty = "propose"
        /\ r.tried \in DOMAIN b /\ r.proposed = b[r.tried] /\ msg.protocol = b[r.tried]
        /\ i.tried = r.tried
        /\ \A j \in 1..i.tried : ~ Meets(a, b, j)
        /\ \A j \in 1..(i.tried - 1) : ~ Meets(b, a, j)
    BY <1>2 DEF ToInitiator
  <2>2. PICK k \in Nat, q \in Protocol : k = i.tried /\ k = r.tried /\ q = b[k]
    BY <2>1 DEF State
  <2>3. /\ k \in DOMAIN b /\ k \in 1..k
        /\ r.proposed = q /\ msg.protocol = q /\ q # NoProtocol
        /\ \A j \in 1..k : ~ Meets(a, b, j)
        /\ \A j \in 1..(k - 1) : ~ Meets(b, a, j)
    BY <2>1, <2>2, NoProtocolAssumption
  <2>4. PICK st, reply : st = x.state /\ reply = x.reply
    OBVIOUS
  <2>5. CASE q \in Members(a)
    <3>1. st.accepted = q /\ st.finished = TRUE /\ reply = Accept
      BY <2>1, <2>3, <2>4, <2>5, Kinds DEF Handled
    <3>2. Meets(b, a, k) /\ ~ Meets(a, b, k)
      BY <2>2, <2>3, <2>5 DEF Meets
    <3>3. \A j \in 1..(k - 1) : ~ Meets(a, b, j) /\ ~ Meets(b, a, j)
      BY <2>3
    <3>4. Best(a, b, q)
      BY <2>2, <2>3, <3>2, <3>3 DEF Best
    <3>5. Settled(a, b, st)
      BY <2>3, <3>1, <3>4 DEF Settled
    <3>6. Decides(a, b, r, st, reply)
      BY <2>3, <3>1, <3>4, <3>5 DEF Decides
    <3>7. QED
      BY <2>4, <3>5, <3>6 DEF ToResponder
  <2>6. ~ Meets(b, a, k) \/ q \in Members(a)
    BY <2>2 DEF Meets
  <2>7. CASE q \notin Members(a) /\ k + 1 \in DOMAIN a
    <3>1. /\ st.tried = k + 1 /\ st.proposed = a[k + 1] /\ st.accepted = NoProtocol
          /\ st.finished = i.finished /\ reply = Proposal(a[k + 1])
      BY <2>1, <2>2, <2>3, <2>4, <2>7, Kinds DEF Handled
    <3>2. Open(st, r) /\ ~ st.finished
      BY <2>1, <3>1 DEF Open
    <3>3. reply.ty = "propose" /\ reply.protocol = a[k + 1] /\ reply # NoMessage
      BY <3>1, Kinds
    <3>4. \A j \in 1..k : ~ Meets(a, b, j) /\ ~ Meets(b, a, j)
      <4>1. \A j \in 1..k : j \in 1..(k - 1) \/ j = k
        OBVIOUS
      <4>2. QED
        BY <2>3, <2>6, <2>7, <4>1
    <3>5. ToResponder(a, b, st, r, reply)
      BY <2>2, <2>7, <3>1, <3>2, <3>3, <3>4 DEF ToResponder
    <3>6. QED
      BY <2>4, <3>2, <3>3, <3>5
  <2>8. CASE q \notin Members(a) /\ k + 1 \notin DOMAIN a
    <3>1. st.accepted = NoProtocol /\ st.finished = TRUE /\ reply = Fail
      BY <2>1, <2>2, <2>3, <2>4, <2>8, Kinds DEF Handled
    <3>2. Disjoint(a, b)
      BY <2>3, <2>8, RunOut
    <3>3. Settled(a, b, st)
      BY <3>1, <3>2 DEF Settled
    <3>4. r.accepted = NoProtocol
      BY <2>1 DEF Open
    <3>5. Decides(a, b, r, st, reply)
      BY <3>1, <3>2, <3>3, <3>4 DEF Decides
    <3>6. QED
      BY <2>4, <3>3, <3>5 DEF ToResponder
  <2>9. QED
    BY <2>5, <2>7, <2>8
<1>3. QED
  BY <1>1, <1>2

\* The first proposal.
LEMMA FirstTurn ==
    ASSUME NEW a \in Seq(Protocol), NEW b \in Seq(Protocol), NEW x, Proposes(New, a, x)
    PROVE  ToResponder(a, b, x.state, New, x.reply)
<1>1. /\ New.tried = 0 /\ New.accepted = NoProtocol /\ New.finished = FALSE
      /\ New.proposed = NoProtocol
  BY DEF New
<1>2. PICK st, reply, n : st = x.state /\ reply = x.reply /\ n = New
  OBVIOUS
<1>3. CASE 1 \in DOMAIN a
  <2>1. /\ st.tried = 1 /\ st.proposed = a[1] /\ st.accepted = NoProtocol
        /\ st.finished = FALSE /\ reply = Proposal(a[1])
    BY <1>1, <1>2, <1>3 DEF Proposes
  <2>2. Open(st, n) /\ reply.ty = "propose" /\ reply.protocol = a[1] /\ n.tried = 0
    BY <1>1, <1>2, <2>1, Kinds DEF Open
  <2>3. \A j \in 1..n.tried : ~ Meets(a, b, j) /\ ~ Meets(b, a, j)
    BY <2>2
  <2>4. ToResponder(a, b, st, n, reply)
    BY <1>3, <2>1, <2>2, <2>3 DEF ToResponder
  <2>5. QED
    BY <1>2, <2>4
<1>4. CASE 1 \notin DOMAIN a
  <2>1. st.accepted = NoProtocol /\ st.finished = TRUE /\ reply = Fail
    BY <1>1, <1>2, <1>4 DEF Proposes
  <2>2. Disjoint(a, b)
    <3>1. 0 + 1 \notin DOMAIN a /\ \A j \in 1..0 : ~ Meets(a, b, j)
      BY <1>4
    <3>2. QED
      BY <3>1, RunOut
  <2>3. Settled(a, b, st)
    BY <2>1, <2>2 DEF Settled
  <2>4. Decides(a, b, n, st, reply)
    BY <1>1, <1>2, <2>1, <2>2, <2>3 DEF Decides
  <2>5. QED
    BY <1>2, <2>4 DEF ToResponder
<1>5. QED
  BY <1>3, <1>4

\* The responder's step keeps that: the datagram it takes was the only one in flight.
LEMMA ResponderKeeps ==
    ASSUME TypeOK, FlightInv, NEW m, NEW x, NEW out, NEW l, NEW addr, NEW k,
           Takes(R, m, x, out, l, addr, k), duplicated' = 0,
           out = {} \/ \E d : out = {d} /\ Says(d) = x.reply,
           \/ l \in {"msg3", "negotiate", "failed"}
           \/ l = Outcome(x.state) /\ (x.reply = NoMessage \/ x.state.finished)
    PROVE  FlightInv'
<1>1. I \in Sides /\ R \in Sides /\ Peer(R) = I /\ Peer(I) = R /\ I # R /\ Sides = {I, R}
  BY Two
<1>2. Taken(R, m, x, out, l, addr) /\ Handled(negotiate[R], protocols[R], Says(m), x)
  BY <1>1, TakesStep, HandledStep, Zenon
<1>3. m \in wire[R] /\ x.state \in State /\ Says(m) \in Neg
  BY DEF Takes
<1>4. PICK a \in Seq(Protocol), b \in Seq(Protocol), i \in State, r \in State,
           msg \in Neg :
          /\ a = protocols[I] /\ b = protocols[R] /\ i = negotiate[I] /\ r = negotiate[R]
          /\ msg = Says(m)
  BY <1>1, <1>3, Parts
<1>5. ToResponder(a, b, i, r, msg) /\ Handled(r, b, msg, x)
  BY <1>2, <1>3, <1>4 DEF FlightInv, FitsResponder
<1>6. /\ ToInitiator(a, b, i, x.state, x.reply)
      /\ x.reply = NoMessage \/ x.state.finished => Settled(a, b, x.state)
  BY <1>5, ResponderTurn
<1>7. wire[I] = {} /\ wire[R] \ {m} = {}
  BY <1>1, <1>3 DEF FlightInv, OneInFlight
<1>8. wire'[R] = {} /\ wire'[I] = out
  BY <1>1, <1>2, <1>7 DEF Taken
<1>9. /\ protocols'[I] = a /\ protocols'[R] = b
      /\ negotiate'[R] = x.state /\ negotiate'[I] = i
      /\ pc'[R] = l /\ pc'[I] = pc[I]
  BY <1>1, <1>2, <1>4 DEF Taken
<1>10. pc[I] # "start"
  BY <1>1, <1>3 DEF FlightInv, AtStart
<1>11. /\ l # "start"
       /\ l \in {"done", "no_protocol"} => Settled(a, b, x.state)
       /\ l = "done" => x.state.accepted # NoProtocol
       /\ l = "no_protocol" => x.state.accepted = NoProtocol
  <2>1. CASE l \in {"msg3", "negotiate", "failed"}
    BY <2>1
  <2>2. CASE l = Outcome(x.state) /\ (x.reply = NoMessage \/ x.state.finished)
    <3>1. Settled(a, b, x.state) /\ x.state.finished
      BY <1>6, <2>2 DEF Settled
    <3>2. /\ x.state.accepted # NoProtocol => l = "done"
          /\ x.state.accepted = NoProtocol => l = "no_protocol"
      BY <1>3, <2>2, <3>1, Outcomes
    <3>3. QED
      BY <3>1, <3>2
  <2>3. QED
    BY <2>1, <2>2
<1>12. AtStart'
  BY <1>1, <1>9, <1>10, <1>11 DEF AtStart
<1>13. OneInFlight'
  BY <1>1, <1>8 DEF OneInFlight
<1>14. FitsInitiator'
  <2>1. SUFFICES ASSUME NEW d \in out
                 PROVE  ToInitiator(protocols'[I], protocols'[R], negotiate'[I], negotiate'[R], Says(d))
    BY <1>8 DEF FitsInitiator, Says
  <2>2. Says(d) = x.reply
    BY <2>1
  <2>3. QED
    BY <1>6, <1>9, <2>2
<1>15. FitsResponder'
  BY <1>8 DEF FitsResponder
<1>16. EndsRight(R)'
  BY <1>9, <1>11 DEF EndsRight
<1>17. EndsRight(I)'
  <2>1. EndsRight(I)
    BY DEF FlightInv
  <2>2. QED
    BY <1>4, <1>9, <2>1 DEF EndsRight
<1>18. QED
  BY <1>12, <1>13, <1>14, <1>15, <1>16, <1>17 DEF FlightInv

\* The initiator's step keeps that: the datagram it takes was the only one in flight.
LEMMA InitiatorKeeps ==
    ASSUME TypeOK, FlightInv, NEW m, NEW x, NEW out, NEW l, NEW addr, NEW k,
           Takes(I, m, x, out, l, addr, k), duplicated' = 0,
           out = {} \/ \E d : out = {d} /\ Says(d) = x.reply,
           \/ l \in {"msg3", "negotiate", "failed"}
           \/ l = Outcome(x.state) /\ (x.reply = NoMessage \/ x.state.finished)
    PROVE  FlightInv'
<1>1. I \in Sides /\ R \in Sides /\ Peer(R) = I /\ Peer(I) = R /\ I # R /\ Sides = {I, R}
  BY Two
<1>2. Taken(I, m, x, out, l, addr) /\ Handled(negotiate[I], protocols[I], Says(m), x)
  BY <1>1, TakesStep, HandledStep, Zenon
<1>3. m \in wire[I] /\ x.state \in State /\ Says(m) \in Neg
  BY DEF Takes
<1>4. PICK a \in Seq(Protocol), b \in Seq(Protocol), i \in State, r \in State,
           msg \in Neg :
          /\ a = protocols[I] /\ b = protocols[R] /\ i = negotiate[I] /\ r = negotiate[R]
          /\ msg = Says(m)
  BY <1>1, <1>3, Parts
<1>5. ToInitiator(a, b, i, r, msg) /\ Handled(i, a, msg, x)
  BY <1>2, <1>3, <1>4 DEF FlightInv, FitsInitiator
<1>6. /\ ToResponder(a, b, x.state, r, x.reply)
      /\ x.reply = NoMessage \/ x.state.finished => Settled(a, b, x.state)
  BY <1>5, InitiatorTurn
<1>7. wire[R] = {} /\ wire[I] \ {m} = {}
  BY <1>1, <1>3 DEF FlightInv, OneInFlight
<1>8. wire'[I] = {} /\ wire'[R] = out
  BY <1>1, <1>2, <1>7 DEF Taken
<1>9. /\ protocols'[I] = a /\ protocols'[R] = b
      /\ negotiate'[I] = x.state /\ negotiate'[R] = r
      /\ pc'[I] = l /\ pc'[R] = pc[R]
  BY <1>1, <1>2, <1>4 DEF Taken
<1>10. pc[I] # "start"
  BY <1>1, <1>3 DEF FlightInv, AtStart
<1>11. /\ l # "start"
       /\ l \in {"done", "no_protocol"} => Settled(a, b, x.state)
       /\ l = "done" => x.state.accepted # NoProtocol
       /\ l = "no_protocol" => x.state.accepted = NoProtocol
  <2>1. CASE l \in {"msg3", "negotiate", "failed"}
    BY <2>1
  <2>2. CASE l = Outcome(x.state) /\ (x.reply = NoMessage \/ x.state.finished)
    <3>1. Settled(a, b, x.state) /\ x.state.finished
      BY <1>6, <2>2 DEF Settled
    <3>2. /\ x.state.accepted # NoProtocol => l = "done"
          /\ x.state.accepted = NoProtocol => l = "no_protocol"
      BY <1>3, <2>2, <3>1, Outcomes
    <3>3. QED
      BY <3>1, <3>2
  <2>3. QED
    BY <2>1, <2>2
<1>12. AtStart'
  BY <1>1, <1>9, <1>10, <1>11 DEF AtStart
<1>13. OneInFlight'
  BY <1>1, <1>8 DEF OneInFlight
<1>14. FitsResponder'
  <2>1. SUFFICES ASSUME NEW d \in out
                 PROVE  ToResponder(protocols'[I], protocols'[R], negotiate'[I], negotiate'[R], Says(d))
    BY <1>8 DEF FitsResponder, Says
  <2>2. Says(d) = x.reply
    BY <2>1
  <2>3. QED
    BY <1>6, <1>9, <2>2
<1>15. FitsInitiator'
  BY <1>8 DEF FitsInitiator
<1>16. EndsRight(I)'
  BY <1>9, <1>11 DEF EndsRight
<1>17. EndsRight(R)'
  <2>1. EndsRight(R)
    BY DEF FlightInv
  <2>2. QED
    BY <1>4, <1>9, <2>1 DEF EndsRight
<1>18. QED
  BY <1>12, <1>13, <1>14, <1>15, <1>16, <1>17 DEF FlightInv

\* Nothing has flown yet.
LEMMA ResultInit ==
    ASSUME Init
    PROVE  ResultInv
BY Two DEF Init, ResultInv, FlightInv, AtStart, OneInFlight, FitsResponder, FitsInitiator, EndsRight

\* The side in turn takes the one message in flight, and sends at most one.
LEMMA ResultStep ==
    ASSUME TypeOK, ResultInv, [Next]_vars
    PROVE  ResultInv'
<1>1. I \in Sides /\ R \in Sides /\ Peer(R) = I /\ Peer(I) = R /\ I # R /\ Sides = {I, R}
  BY Two
<1>2. SUFFICES ASSUME duplicated' = 0 PROVE FlightInv'
  BY DEF ResultInv
<1>3. CASE Dial
  <2>1. PICK first, d :
            /\ pc[I] = "start" /\ first = Propose(New, protocols[I])
            /\ first.state \in State /\ first.reply \in Neg
            /\ d \in Datagram /\ d.stage = "msg1" /\ Says(d) = first.reply
            /\ negotiate' = [negotiate EXCEPT ![I] = first.state]
            /\ wire' = [wire EXCEPT ![R] = @ \cup {d}]
            /\ pc' = [pc EXCEPT ![I] = "msg2"]
            /\ UNCHANGED <<protocols, external_addr, nonce, lost, duplicated, io_errors>>
    BY <1>3, DialStep
  <2>2. FlightInv
    BY <1>2, <2>1 DEF ResultInv
  <2>3. /\ wire[I] = {} /\ wire[R] = {} /\ negotiate[R] = New
    BY <1>1, <2>1, <2>2 DEF FlightInv, AtStart
  <2>4. /\ wire'[I] = {} /\ wire'[R] = {d}
        /\ negotiate'[I] = first.state /\ negotiate'[R] = New
        /\ pc'[I] = "msg2" /\ pc'[R] = pc[R] /\ protocols' = protocols
    BY <1>1, <2>1, <2>3 DEF TypeOK
  <2>5. PICK a \in Seq(Protocol), b \in Seq(Protocol), n \in State :
            a = protocols[I] /\ b = protocols[R] /\ n = New
    <3>1. New \in State
      BY DEF New, State
    <3>2. QED
      BY <1>1, <3>1, Parts
  <2>6. Proposes(n, a, first)
    BY <2>1, <2>5, ProposeStep
  <2>7. ToResponder(a, b, first.state, New, first.reply)
    BY <2>5, <2>6, FirstTurn
  <2>8. FitsResponder'
    <3>1. SUFFICES ToResponder(protocols'[I], protocols'[R], negotiate'[I], negotiate'[R], Says(d))
      BY <2>4 DEF FitsResponder, Says
    <3>2. QED
      BY <2>1, <2>4, <2>5, <2>7
  <2>9. FitsInitiator' /\ AtStart' /\ OneInFlight'
    BY <1>1, <2>4 DEF FitsInitiator, AtStart, OneInFlight
  <2>10. EndsRight(I)'
    BY <2>4 DEF EndsRight
  <2>11. EndsRight(R)'
    <3>1. EndsRight(R)
      BY <2>2 DEF FlightInv
    <3>2. QED
      BY <2>3, <2>4, <3>1 DEF EndsRight
  <2>12. QED
    BY <2>8, <2>9, <2>10, <2>11 DEF FlightInv
<1>4. CASE InitiatorHandshake
  <2>1. PICK m, x, d, l, addr, k :
            /\ Takes(I, m, x, {d}, l, addr, k)
            /\ Says(d) = x.reply
            /\ l = IF addr = NoAddr THEN "failed"
                   ELSE IF x.state.finished THEN Outcome(x.state) ELSE "negotiate"
    BY <1>4, InitiatorHandshakeStep, Zenon
  <2>2. PICK out : out = {d}
    OBVIOUS
  <2>3. Takes(I, m, x, out, l, addr, k) /\ \E e : out = {e} /\ Says(e) = x.reply
    BY <2>1, <2>2
  <2>4. \/ l \in {"msg3", "negotiate", "failed"}
        \/ l = Outcome(x.state) /\ (x.reply = NoMessage \/ x.state.finished)
    BY <2>1
  <2>5. FlightInv
    <3>1. Taken(I, m, x, out, l, addr)
      BY <1>1, <2>3, TakesStep, Zenon
    <3>2. QED
      BY <1>2, <3>1 DEF Taken, ResultInv
  <2>6. QED
    BY <1>2, <2>3, <2>4, <2>5, InitiatorKeeps, Zenon
<1>5. CASE InitiatorNegotiate
  <2>1. PICK m, x, out, l, addr, k :
            /\ Takes(I, m, x, out, l, addr, k)
            /\ \/ x.reply = NoMessage /\ out = {} /\ l = Outcome(x.state)
               \/ /\ x.reply # NoMessage
                  /\ \E d : out = {d} /\ d.stage = "transport" /\ Says(d) = x.reply
                  /\ l = IF x.state.finished THEN Outcome(x.state) ELSE "negotiate"
    BY <1>5, InitiatorNegotiateStep, Zenon
  <2>2. out = {} \/ \E d : out = {d} /\ Says(d) = x.reply
    BY <2>1
  <2>3. \/ l \in {"msg3", "negotiate", "failed"}
        \/ l = Outcome(x.state) /\ (x.reply = NoMessage \/ x.state.finished)
    BY <2>1
  <2>4. FlightInv
    <3>1. Taken(I, m, x, out, l, addr)
      BY <1>1, <2>1, TakesStep, Zenon
    <3>2. QED
      BY <1>2, <3>1 DEF Taken, ResultInv
  <2>5. QED
    BY <1>2, <2>1, <2>2, <2>3, <2>4, InitiatorKeeps, Zenon
<1>6. CASE ResponderHandshake
  <2>1. PICK m, x, d, k :
            /\ Takes(R, m, x, {d}, "msg3", NoAddr, k)
            /\ pc[R] = "msg1" /\ m.stage = "msg1"
            /\ d.stage = "msg2" /\ Says(d) = x.reply /\ Heard(d) = external_addr[R]
    BY <1>6, ResponderHandshakeStep
  <2>2. PICK out, l, addr : out = {d} /\ l = "msg3" /\ addr = NoAddr
    OBVIOUS
  <2>3. Takes(R, m, x, out, l, addr, k) /\ \E e : out = {e} /\ Says(e) = x.reply
    BY <2>1, <2>2
  <2>4. l \in {"msg3", "negotiate", "failed"}
    BY <2>2
  <2>5. FlightInv
    <3>1. Taken(R, m, x, out, l, addr)
      BY <1>1, <2>3, TakesStep, Zenon
    <3>2. QED
      BY <1>2, <3>1 DEF Taken, ResultInv
  <2>6. QED
    BY <1>2, <2>3, <2>4, <2>5, ResponderKeeps, Zenon
<1>7. CASE ResponderNegotiate
  <2>1. PICK m, x, out, l, addr, k :
            /\ Takes(R, m, x, out, l, addr, k)
            /\ \/ x.reply = NoMessage /\ out = {} /\ l = Outcome(x.state)
               \/ /\ x.reply # NoMessage
                  /\ \E d : out = {d} /\ d.stage = "transport" /\ Says(d) = x.reply
                  /\ l = IF x.state.finished THEN Outcome(x.state) ELSE "negotiate"
    BY <1>7, ResponderNegotiateStep, Zenon
  <2>2. out = {} \/ \E d : out = {d} /\ Says(d) = x.reply
    BY <2>1
  <2>3. \/ l \in {"msg3", "negotiate", "failed"}
        \/ l = Outcome(x.state) /\ (x.reply = NoMessage \/ x.state.finished)
    BY <2>1
  <2>4. FlightInv
    <3>1. Taken(R, m, x, out, l, addr)
      BY <1>1, <2>1, TakesStep, Zenon
    <3>2. QED
      BY <1>2, <3>1 DEF Taken, ResultInv
  <2>5. QED
    BY <1>2, <2>1, <2>2, <2>3, <2>4, ResponderKeeps, Zenon
<1>8. CASE Wanes
  <2>1. FlightInv
    BY <1>2, <1>8 DEF Wanes, ResultInv
  <2>2. /\ protocols' = protocols /\ negotiate' = negotiate
        /\ wire'[I] \subseteq wire[I] /\ wire'[R] \subseteq wire[R]
        /\ pc'[I] = pc[I] \/ pc'[I] = "failed"
        /\ pc'[R] = pc[R] \/ pc'[R] = "failed"
    BY <1>1, <1>8 DEF Wanes
  <2>3. AtStart' /\ OneInFlight'
    BY <1>1, <2>1, <2>2 DEF FlightInv, AtStart, OneInFlight
  <2>4. FitsResponder' /\ FitsInitiator'
    BY <2>1, <2>2 DEF FlightInv, FitsResponder, FitsInitiator, Says
  <2>5. EndsRight(I)' /\ EndsRight(R)'
    BY <2>1, <2>2 DEF FlightInv, EndsRight
  <2>6. QED
    BY <2>3, <2>4, <2>5 DEF FlightInv
<1>9. QED
  BY <1>3, <1>4, <1>5, <1>6, <1>7, <1>8, Steps

\* What holds of two sides that end, in the words of the specification.
LEMMA ResultsRight ==
    ASSUME ResultInv
    PROVE  PreferredChosen /\ FailureJustified
<1>1. SUFFICES ASSUME duplicated = 0, NEW s \in Sides
               PROVE  /\ pc[s] = "done" => Preferred(negotiate[s].accepted)
                      /\ pc[s] = "no_protocol" => Common = {}
  BY DEF PreferredChosen, FailureJustified
<1>2. EndsRight(s)
  BY <1>1, Two DEF ResultInv, FlightInv
<1>3. ASSUME NEW p, Best(protocols[I], protocols[R], p) PROVE Preferred(p)
  BY <1>3, Two DEF Best, Preferred, Meets, Mutual
<1>4. Disjoint(protocols[I], protocols[R]) => Common = {}
  BY DEF Disjoint, Common
<1>5. QED
  BY <1>2, <1>3, <1>4 DEF EndsRight, Settled

\* Without duplicates, one message flies, and it fits the side that will read it.
LEMMA ResultInvariant == Spec => []ResultInv
BY ResultInit, ResultStep, TypeCorrect, PTL DEF Spec

\* Whatever a side returns is the first common protocol when the sides propose in
\* turn, for any two lists and any losses, as long as no datagram comes twice.
THEOREM PreferenceKept == Spec => []PreferredChosen
BY ResultInvariant, ResultsRight, PTL

\* Under the same condition, Err(Negotiation) means that the lists share nothing.
THEOREM FailuresJustified == Spec => []FailureJustified
BY ResultInvariant, ResultsRight, PTL


\* The first mutual protocol is one protocol.
LEMMA PreferredUnique ==
    ASSUME TypeOK, NEW p, NEW q, Preferred(p), Preferred(q)
    PROVE  p = q
<1>1. \A s \in Sides : protocols[s] \in Seq(Protocol)
  BY HandshakeAssumption DEF TypeOK
<1>2. DOMAIN protocols[I] \subseteq Nat /\ DOMAIN protocols[R] \subseteq Nat
  BY <1>1 DEF Sides
<1>3. PICK k \in Nat :
          /\ \A j \in 1..(k - 1) : ~ Mutual(I, j) /\ ~ Mutual(R, j)
          /\ \/ Mutual(I, k) /\ p = protocols[I][k]
             \/ ~ Mutual(I, k) /\ Mutual(R, k) /\ p = protocols[R][k]
  BY <1>2 DEF Preferred
<1>4. PICK l \in Nat :
          /\ \A j \in 1..(l - 1) : ~ Mutual(I, j) /\ ~ Mutual(R, j)
          /\ \/ Mutual(I, l) /\ q = protocols[I][l]
             \/ ~ Mutual(I, l) /\ Mutual(R, l) /\ q = protocols[R][l]
  BY <1>2 DEF Preferred
<1>5. k >= 1 /\ l >= 1
  <2>1. \A s \in Sides, j \in Nat : Mutual(s, j) => j >= 1
    BY <1>1 DEF Mutual
  <2>2. QED
    BY <1>3, <1>4, <2>1 DEF Sides
<1>6. k = l
  <2>1. ~ (k < l)
    <3>1. k < l => k \in 1..(l - 1)
      BY <1>5
    <3>2. QED
      BY <1>3, <1>4, <3>1
  <2>2. ~ (l < k)
    <3>1. l < k => l \in 1..(k - 1)
      BY <1>5
    <3>2. QED
      BY <1>3, <1>4, <3>1
  <2>3. QED
    BY <2>1, <2>2
<1>7. QED
  BY <1>3, <1>4, <1>6

\* Two sides that both return a protocol return the same one, as the tests of
\* negotiation.rs assert of a pair of negotiations, unless the network has delivered
\* a datagram twice.
THEOREM AgreeUnlessDuplicated == Spec => [](duplicated = 0 => Agreement)
<1>1. TypeOK /\ PreferredChosen => (duplicated = 0 => Agreement)
  BY PreferredUnique DEF PreferredChosen, Agreement, Sides
<1>2. QED
  BY <1>1, TypeCorrect, PreferenceKept, PTL

================================================================================
