------------------------------ MODULE MCPeers -------------------------------
(***************************************************************************)
(* Instances of Peers: an initiator task and the inbound loop.  Both       *)
(* register p; the loop also registers q and has a directory that names    *)
(* others, or p itself.                                                    *)
(***************************************************************************)
EXTENDS Peers

CONSTANTS p, q, o, n, dial1, inbound

Connect(x) == [peer |-> x, goal |-> "connected"]
Name(x) == [peer |-> x, goal |-> "named"]

Crossing ==
  [x \in Actor |-> IF x = inbound THEN {Connect(p), Connect(q), Name(o)} ELSE {Connect(p)}]

Directories == [x \in Actor |-> IF x = inbound THEN {Name(o), Name(n)} ELSE {Connect(p)}]

NamedMeanwhile == [x \in Actor |-> IF x = inbound THEN {Name(p)} ELSE {Connect(p)}]
=============================================================================
