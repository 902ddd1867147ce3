---------------------------------- MODULE Addr ---------------------------------
(***************************************************************************)
(* Addresses, addr/src/lib.rs: an Addr, its text and the parser.  A text   *)
(* is the sequence of its parts between slashes; the text of an IP address *)
(* or of a port stands for its value, as std parses and formats them.      *)
(***************************************************************************)
EXTENDS Integers, Sequences

CONSTANTS IP4, IP6, Ports, DefaultPort

ASSUME AddrAssumption ==
    IP4 \cap IP6 = {} /\ "none" \notin IP4 \cup IP6 /\ DefaultPort \in Ports

\* struct Addr.
Addresses == [ip: IP4 \cup IP6, port: Ports]

NoAddr == [ip |-> "none", port |-> DefaultPort]     \* Option<Addr>::None

\* Display: a leading slash, so the first part is empty.
Display(addr) ==
    <<"", IF addr.ip \in IP4 THEN "ip4" ELSE "ip6", addr.ip, "udp", addr.port>>

\* Faulty variant: the port is not read.
FromStrIpOnly(text) ==
    LET parts == Tail(text) IN
    IF Len(parts) \in {2, 4} /\ \/ parts[1] = "ip4" /\ parts[2] \in IP4
                                \/ parts[1] = "ip6" /\ parts[2] \in IP6
    THEN [ip |-> parts[2], port |-> DefaultPort]
    ELSE NoAddr

\* from_str: what stands before the first slash is ignored, and the other parts
\* are read in pairs: the address, then perhaps the port.  NoAddr is a parse error.
FromStr(text) ==
    LET parts == Tail(text)
        ip   == \/ parts[1] = "ip4" /\ parts[2] \in IP4
                \/ parts[1] = "ip6" /\ parts[2] \in IP6
        port == parts[3] = "udp" /\ parts[4] \in Ports IN
    CASE Len(parts) = 2 /\ ip -> [ip |-> parts[2], port |-> DefaultPort]
      [] Len(parts) = 4 /\ ip /\ port -> [ip |-> parts[2], port |-> parts[4]]
      [] OTHER -> NoAddr

================================================================================
