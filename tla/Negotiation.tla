------------------------------ MODULE Negotiation ------------------------------
(***************************************************************************)
(* Protocol negotiation, efcp/src/negotiation.rs: struct Negotiation as a  *)
(* record and its methods as functions from the record to the new record   *)
(* and the message to send.  `started` is left out: only the assertion in  *)
(* initiate reads it, and initiate is called once, on a new Negotiation.   *)
(***************************************************************************)
EXTENDS Integers, Sequences

CONSTANTS Protocol,     \* protocol names
          NoProtocol    \* Option<&str>::None

ASSUME NoProtocolAssumption == NoProtocol \notin Protocol

\* enum Message, and Option<Message>::None.
Proposal(p) == [ty |-> "propose", protocol |-> p]
Accept      == [ty |-> "accept", protocol |-> NoProtocol]
Fail        == [ty |-> "fail", protocol |-> NoProtocol]
NoMessage   == [ty |-> "none", protocol |-> NoProtocol]

Message == {Proposal(p) : p \in Protocol} \cup {Accept, Fail}

State == [tried: Nat, proposed: Protocol \cup {NoProtocol},
          accepted: Protocol \cup {NoProtocol}, finished: BOOLEAN]

Members(list) == {list[i] : i \in DOMAIN list}

New == [tried |-> 0, proposed |-> NoProtocol, accepted |-> NoProtocol, finished |-> FALSE]

\* Faulty variants of propose: one proposal after the end of the list; the last
\* protocol left out; the list taken from its end.
ProposePastEnd(n, list) ==
    LET i == n.tried + 1
        p == IF i \in DOMAIN list THEN list[i] ELSE NoProtocol IN
    IF i <= Len(list) + 1
    THEN [state |-> [n EXCEPT !.tried = i, !.proposed = p], reply |-> Proposal(p), ok |-> TRUE]
    ELSE [state |-> [n EXCEPT !.tried = i, !.finished = TRUE], reply |-> Fail, ok |-> TRUE]

ProposeShort(n, list) ==
    LET i == n.tried + 1 IN
    IF i < Len(list)
    THEN [state |-> [n EXCEPT !.tried = i, !.proposed = list[i]],
          reply |-> Proposal(list[i]), ok |-> TRUE]
    ELSE [state |-> [n EXCEPT !.tried = i, !.finished = TRUE], reply |-> Fail, ok |-> TRUE]

ProposeBackwards(n, list) ==
    LET i == n.tried + 1
        p == list[Len(list) + 1 - i] IN
    IF i \in DOMAIN list
    THEN [state |-> [n EXCEPT !.tried = i, !.proposed = p], reply |-> Proposal(p), ok |-> TRUE]
    ELSE [state |-> [n EXCEPT !.tried = i, !.finished = TRUE], reply |-> Fail, ok |-> TRUE]

\* propose: the next protocol of the list, or Fail when it is exhausted.
Propose(n, list) ==
    LET i == n.tried + 1 IN
    IF i \in DOMAIN list
    THEN [state |-> [n EXCEPT !.tried = i, !.proposed = list[i]],
          reply |-> Proposal(list[i]), ok |-> TRUE]
    ELSE [state |-> [n EXCEPT !.tried = i, !.finished = TRUE], reply |-> Fail, ok |-> TRUE]

\* Faulty variant: the negotiation is not marked finished.
AcceptedOnly(n) == [n EXCEPT !.accepted = n.proposed, !.proposed = NoProtocol]

\* The peer has accepted what was proposed last, if anything was.
Accepted(n) == [n EXCEPT !.accepted = n.proposed, !.proposed = NoProtocol, !.finished = TRUE]

\* message: the answer to a message of the peer; ok is FALSE for ProtocolError.
HandleMessage(n, list, msg) ==
    CASE msg.ty = "propose" /\ n.accepted # NoProtocol ->
             [state |-> n, reply |-> NoMessage, ok |-> FALSE]
      [] msg.ty = "propose" /\ n.accepted = NoProtocol /\ msg.protocol \in Members(list) ->
             [state |-> [n EXCEPT !.accepted = msg.protocol, !.finished = TRUE],
              reply |-> Accept, ok |-> TRUE]
      [] msg.ty = "propose" /\ n.accepted = NoProtocol /\ msg.protocol \notin Members(list) ->
             Propose(n, list)
      [] msg.ty = "accept" ->
             [state |-> Accepted(n), reply |-> NoMessage, ok |-> TRUE]
      [] msg.ty = "fail" ->
             [state |-> [n EXCEPT !.finished = TRUE], reply |-> NoMessage, ok |-> TRUE]
      [] msg.ty = "none" ->      \* the packet carries no negotiation message
             [state |-> n, reply |-> NoMessage, ok |-> TRUE]

================================================================================
