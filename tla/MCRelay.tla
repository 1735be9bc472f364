------------------------------ MODULE MCRelay -------------------------------
(***************************************************************************)
(* Instances of Relay for TLC: chains of three and four devices.  Who      *)
(* reaches whom directly, and which nodes can relay, is chosen in the      *)
(* configurations.                                                         *)
(***************************************************************************)
EXTENDS Relay, TLC

CONSTANTS
  a, b, r, s,
  Scenes,  \* the situations a run may begin in
  Fresh    \* nodes whose STUN query and broadcast are still ahead

Three == {a, r, b}
Four == {a, r, s, b}

NoPaths == [n \in Node |-> [d \in Node |-> None]]

\* The end of a chain r - s - b, whose nodes know of each other, is dialled by a.
ToR == (a :> {r}) @@ (r :> {}) @@ (s :> {}) @@ (b :> {})
Chain == (a :> {}) @@ (r :> {s}) @@ (s :> {r, b}) @@ (b :> {s})
ChainVia == [NoPaths EXCEPT ![r][b] = s, ![b][r] = s]
\* Everyone is connected to r, and a can reach b after all.
Spokes == (a :> {r}) @@ (b :> {r}) @@ (r :> {a, b})
\* a and r are connected; r has dialled b, and a will.
HalfLinked == (a :> {r}) @@ (r :> {a, b}) @@ (b :> {})
BothDial == (a :> {b}) @@ (r :> {b}) @@ (b :> {})

Quiet == [c \in Channel |-> <<>>]
\* b greets r last.
LateGreeting == [Quiet EXCEPT ![<<b, r>>] = <<SessionInit>>]
\* What r has sent since it has message B of b.
DialledB ==
  [Quiet EXCEPT ![<<r, b>>] = <<C, SessionInit, Announce, Directory(Direct({a}))>>,
                ![<<r, a>>] = <<Directory(Direct({b}))>>]

\* linked[n]: peers n is connected to; via[n][d]: the relay of the path n has to
\* d, or None; underway: what has been sent and not received; lost: losses that
\* count as used up.
Scene(linked, via, underway, lost) ==
  [linked |-> linked, via |-> via, underway |-> underway, lost |-> lost]

Newcomer == {Scene(Chain, ChainVia, Quiet, 0)}
Shortcut == Scene(Spokes, NoPaths, LateGreeting, 0)
Rivals == Scene(HalfLinked, NoPaths, DialledB, MaxLoss)
ShortcutOrRivals == {Shortcut, Rivals}
OnlyRivals == {Rivals}

\* Nodes not in Fresh have run for a while.  The handshakes of linked have
\* finished, but for what is underway.  Without via, SessionInits were handled
\* when their receiver had no other session; with it, they were handled, and
\* the directories and RelayReadys they led to have all arrived.
Begins(scene) ==
  LET linked == scene.linked
      via == scene.via
  IN /\ net = scene.underway
     /\ sessions = linked
     /\ joining = [n \in Node |-> [p \in Node |-> "idle"]]
     /\ accepting = [n \in Node |-> None]
     /\ paths = [n \in Node |-> [d \in Node |->
          IF via[n][d] = None THEN None ELSE [via |-> via[n][d], hops |-> 1]]]
     /\ known = [n \in Node |-> {d \in Node : via[n][d] # None}]
     /\ routes = [n \in Node |-> linked[n] \cup known[n]]
     /\ candidates = [n \in Node |-> {p \in linked[n] \cap Routable : n \in linked[p]}]
     /\ relays = Routable \ Fresh
     /\ announced = Node \ Fresh
     /\ missed = [n \in Node |-> None]
     /\ received = {}
     /\ used = [data |-> 0, loss |-> scene.lost, timeout |-> 0, selfish |-> FALSE]

ScenesInit == \E scene \in Scenes : Begins(scene)

SceneSpec == ScenesInit /\ [][Next]_vars
SceneFairSpec == SceneSpec /\ Fairness
=============================================================================
