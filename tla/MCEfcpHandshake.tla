---------------------------- MODULE MCEfcpHandshake ----------------------------
(* EfcpHandshake for TLC: every pair of protocol lists up to a length; names   *)
(* are only compared, so they are interchangeable.                             *)
EXTENDS EfcpHandshake, TLC

CONSTANT MaxListLen     \* bound on the length of a protocol list

AnyLists      == UNION {[1..n -> Protocol] : n \in 0..MaxListLen}
LongDistinct  == {l \in UNION {[1..n -> Protocol] : n \in (MaxListLen - 1)..MaxListLen} :
                     Cardinality(Members(l)) = Len(l)}
ClientAddr    == [ip |-> "::1", port |-> "4000"]

NameSymmetry == Permutations(Protocol)

================================================================================
