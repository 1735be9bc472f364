---------------------------- MODULE MCHandshake -----------------------------
(***************************************************************************)
(* Instances of Handshake for TLC: two devices with one public address     *)
(* each.  What every device is told about, and which faults the network    *)
(* may commit, is chosen in the configurations.                            *)
(***************************************************************************)
EXTENDS Handshake, TLC

CONSTANTS
  a, b,    \* the devices
  xa, xb,  \* their public addresses
  k1, k2   \* ephemerals, for the runs with two

TwoNodes == {a, b}
TwoAddrs == {xa, xb}
Owners == (xa :> a) @@ (xb :> b)
OwnAddress == [n \in TwoNodes |-> [x \in TwoAddrs |-> IF n = a THEN xa ELSE xb]]

\* Each is told of the other.
MutualDiscovery == (a :> {xb}) @@ (b :> {xa})
\* Only a is told of b.
OneSidedDiscovery == (a :> {xb}) @@ (b :> {})

\* STUN is filtered, or tells a its public address when it gets to it.
StunSilent == [n \in TwoNodes |-> {}]
StunHonest == (a :> {xa}) @@ (b :> {})
\* Trackers hand a its own address besides b's.
SelfDiscovery == (a :> {xa, xb}) @@ (b :> {})

\* The devices trade places with their addresses when both are told the same,
\* and ephemerals are all alike; no definition chooses among any of them.
TwoSlots == {k1, k2}
Ephemerals == Permutations(TwoSlots)
Alike ==
  {(a :> b) @@ (b :> a) @@ (xa :> xb) @@ (xb :> xa)} \cup Ephemerals
=============================================================================
