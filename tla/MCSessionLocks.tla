--------------------------- MODULE MCSessionLocks ---------------------------
(***************************************************************************)
(* Instances of SessionLocks: three peers in two shards, the heartbeat,    *)
(* the broadcast, the outbound loop and a handshake.                       *)
(***************************************************************************)
EXTENDS SessionLocks

CONSTANTS p1, p2, p3, heartbeat, broadcast, outbound, initiator

TwoShards == [x \in Peer |-> IF x = p3 THEN 2 ELSE 1]

Kinds ==
  [t \in Task |-> IF t = heartbeat THEN "walk" ELSE IF t = broadcast THEN "directory"
                  ELSE IF t = outbound THEN "short" ELSE "handshake"]
=============================================================================
