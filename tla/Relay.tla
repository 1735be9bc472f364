------------------------------- MODULE Relay --------------------------------
(***************************************************************************)
(* core/src/{handshake,inbound,outbound,lib}.rs: how nodes that cannot     *)
(* reach each other directly learn of one another through peer             *)
(* directories, set up relay paths, and forward data along them.           *)
(*                                                                         *)
(* Per node: the initiator tasks of the handshake, from message C on; the  *)
(* inbound loop, which finishes the responder side and handles one message *)
(* at a time; the outbound loop, which takes packets from the TUN device;  *)
(* and two one-off tasks, STUN and the directory broadcast after it.  They *)
(* share the sessions, relay_paths, routing_table and relay_candidates     *)
(* maps without a common lock.                                             *)
(*                                                                         *)
(* Handshakes succeed here (Handshake has what can go wrong with them),    *)
(* sessions run over UDP and are never removed, as in the code for as long *)
(* as nothing removes a peer.  A link keeps the order of its datagrams     *)
(* unless Ordered is FALSE.  A node has a public address in a peer's       *)
(* registry (known) once a directory named it.                             *)
(***************************************************************************)
EXTENDS Naturals, Sequences, FiniteSets, SequencesExt

CONSTANTS
  Node,        \* devices of one network
  Dials,       \* Dials[n]: peers that n discovers and can reach directly
  Routable,    \* nodes whose public address STUN finds to be routable
  MAX_HOP_REBROADCAST,  \* 8 in the code
  Ordered,     \* links keep the order of datagrams
  MaxData,     \* bound on packets the TUN devices produce
  MaxLoss,     \* bound on lost datagrams
  MaxTimeout,  \* bound on handshake attempts that time out
  None

Path == [via : Node, hops : 0 .. 255]

ASSUME RelayAssumption ==
  /\ IsFiniteSet(Node)
  /\ Dials \in [Node -> SUBSET Node]
  /\ \A n \in Node, p \in Node : p \in Dials[n] => p # n /\ n \notin Dials[p]
  /\ Routable \subseteq Node
  /\ MAX_HOP_REBROADCAST \in Nat
  /\ Ordered \in BOOLEAN
  /\ MaxData \in Nat /\ MaxLoss \in Nat /\ MaxTimeout \in Nat
  /\ None \notin Node \cup Path

Channel == Node \X Node
Entry == [peer : Node, hops : 0 .. 255]

Msg ==
  [type : {"C", "SessionInit", "RelayAnnounce"}]
    \cup [type : {"PeerDirectory"}, entries : SUBSET Entry]
    \cup [type : {"RelayRequest"}, dst : Node]
    \cup [type : {"RelayReady"}, dst : Node, hops : 0 .. 255]
    \cup [type : {"RelayData"}, src : Node, dst : Node]

VARIABLES
  net,         \* net[<<n, p>>]: datagrams from n to p
  sessions,    \* sessions[n]: peers n has a session with
  joining,     \* joining[n][p]: how far n's half of a handshake with p is
  accepting,   \* accepting[n]: the peer n's inbound loop is finishing with
  paths,       \* relay_paths[n][d]
  routes,      \* routes[n]: peers with an overlay route
  candidates,  \* relay_candidates[n]
  known,       \* known[n]: peers whose public address a directory gave
  relays,      \* nodes whose can_relay_flag is set
  announced,   \* nodes past their post-STUN broadcast
  missed,      \* missed[n]: the peer the outbound loop found no way to
  received,    \* history: <<src, dst, at>> of relayed packets put on a TUN
  used         \* packets, losses and timeouts so far, and whether a peer was
               \* asked for a path to itself

tables == <<sessions, joining, accepting, paths, routes, candidates, known>>
tasks == <<relays, announced, missed>>
vars == <<net, tables, tasks, received, used>>

Init ==
  /\ net = [c \in Channel |-> <<>>]
  /\ sessions = [n \in Node |-> {}]
  /\ joining = [n \in Node |-> [p \in Node |-> "idle"]]
  /\ accepting = [n \in Node |-> None]
  /\ paths = [n \in Node |-> [d \in Node |-> None]]
  /\ routes = [n \in Node |-> {}]
  /\ candidates = [n \in Node |-> {}]
  /\ known = [n \in Node |-> {}]
  /\ relays = {}
  /\ announced = {}
  /\ missed = [n \in Node |-> None]
  /\ received = {}
  /\ used = [data |-> 0, loss |-> 0, timeout |-> 0, selfish |-> FALSE]

-----------------------------------------------------------------------------
(* Messages *)

C == [type |-> "C"]
SessionInit == [type |-> "SessionInit"]
Announce == [type |-> "RelayAnnounce"]
Directory(E) == [type |-> "PeerDirectory", entries |-> E]
Request(d) == [type |-> "RelayRequest", dst |-> d]
Ready(d, h) == [type |-> "RelayReady", dst |-> d, hops |-> h]
Data(s, d) == [type |-> "RelayData", src |-> s, dst |-> d]

\* u8::saturating_add(1)
Succ8(h) == IF h = 255 THEN 255 ELSE h + 1

\* n has neighbours to connect with each other, and answers requests to relay.
Hub(n) == Cardinality(sessions[n]) >= 2

Nothing == [p \in Node |-> <<>>]
To(p, ms) == [q \in Node |-> IF q = p THEN ms ELSE <<>>]
ToAll(Q, ms) == [q \in Node |-> IF q \in Q THEN ms ELSE <<>>]
Then(out, more) == [q \in Node |-> out[q] \o more[q]]

\* What n sends: out[p] is for p.
Sent(n, out) ==
  [c \in Channel |-> IF c[1] = n THEN net[c] \o out[c[2]] ELSE net[c]]

\* n takes the i-th datagram of p and sends `out`.
Exchange(n, p, i, out) ==
  net' = [Sent(n, out) EXCEPT ![<<p, n>>] = RemoveAt(@, i)]

\* Places in the link from p to n that may be read next.
Readable(p, n) ==
  {i \in 1 .. Len(net[<<p, n>>]) : Ordered => i = 1}

Lose(p, n, i) ==
  /\ used.loss < MaxLoss
  /\ net[<<p, n>>][i].type # "C"
  /\ net' = [net EXCEPT ![<<p, n>>] = RemoveAt(@, i)]
  /\ used' = [used EXCEPT !.loss = @ + 1]
  /\ UNCHANGED <<tables, tasks, received>>

-----------------------------------------------------------------------------
(* Directories *)

Direct(Q) == {[peer |-> q, hops |-> 1] : q \in Q}

\* The peers n can name: its neighbours, and those it has a path and a public
\* address for.
Reachable(n, except) ==
  Direct(sessions[n] \ {except})
    \cup {[peer |-> d, hops |-> paths[n][d].hops] :
            d \in {q \in known[n] \ (sessions[n] \cup {except}) : paths[n][q] # None}}

Listing(E) == IF E = {} THEN <<>> ELSE <<Directory(E)>>

-----------------------------------------------------------------------------
(* The end of a handshake, at either side *)

\* n's initiator task has message B: message C goes out, and the relay path
\* to the peer is dropped.
Dial(n, p) ==
  /\ p \in Dials[n] \ sessions[n]
  /\ joining[n][p] = "idle"
  /\ joining' = [joining EXCEPT ![n][p] = "finished"]
  /\ paths' = [paths EXCEPT ![n][p] = None]
  /\ net' = Sent(n, To(p, <<C>>))
  /\ UNCHANGED <<sessions, accepting, routes, candidates, known, tasks, received, used>>

\* n's inbound loop reads message C of p.
HandleC(n, p) ==
  /\ joining' = [joining EXCEPT ![n][p] = "finished"]
  /\ accepting' = [accepting EXCEPT ![n] = p]
  /\ paths' = [paths EXCEPT ![n][p] = None]
  /\ UNCHANGED <<sessions, routes, candidates, known, tasks, received, used>>

\* Mutant of Insert: the session is lost on the way.
InsertNothing(n, p) ==
  /\ joining[n][p] = "finished"
  /\ joining' = [joining EXCEPT ![n][p] = "inserted"]
  /\ UNCHANGED <<net, sessions, accepting, paths, routes, candidates, known, tasks, received, used>>

\* The session enters the session table.
Insert(n, p) ==
  /\ joining[n][p] = "finished"
  /\ sessions' = [sessions EXCEPT ![n] = @ \cup {p}]
  /\ joining' = [joining EXCEPT ![n][p] = "inserted"]
  /\ UNCHANGED <<net, accepting, paths, routes, candidates, known, tasks, received, used>>

\* What n tells p, and a relaying initiator the others, after inserting p.
Welcome(n, p) ==
  LET others == sessions[n] \ {p}
  IN IF n \notin relays
       THEN To(p, <<SessionInit>>)
     ELSE IF accepting[n] = p
       THEN To(p, <<SessionInit, Announce>>)
     ELSE Then(To(p, <<SessionInit, Announce>> \o Listing(Direct(others))),
               ToAll(others, <<Directory(Direct({p}))>>))

\* The route is added and the peer greeted; a responder's inbound loop is free
\* again.
Register(n, p) ==
  /\ joining[n][p] = "inserted"
  /\ joining' = [joining EXCEPT ![n][p] = "idle"]
  /\ routes' = [routes EXCEPT ![n] = @ \cup {p}]
  /\ net' = Sent(n, Welcome(n, p))
  /\ accepting' = [accepting EXCEPT ![n] = IF @ = p THEN None ELSE @]
  /\ UNCHANGED <<sessions, paths, candidates, known, tasks, received, used>>

\* An attempt of n to dial p times out when p has meanwhile connected to n:
\* every relay candidate is asked for a path to p.
AskRelays(n, p) ==
  /\ used.timeout < MaxTimeout
  /\ p \in Dials[n] \/ n \in Dials[p]
  /\ p \in sessions[n]
  /\ net' = Sent(n, ToAll((candidates[n] \ {p}) \cap sessions[n], <<Request(p)>>))
  /\ used' = [used EXCEPT !.timeout = @ + 1]
  /\ UNCHANGED <<tables, tasks, received>>

-----------------------------------------------------------------------------
(* Inbound loop: messages.  Each handler takes the i-th datagram of p. *)

\* n's inbound loop is free and has a message of this type from p, on a
\* session it knows.
Reads(n, p, i, t) ==
  /\ accepting[n] = None
  /\ i \in Readable(p, n)
  /\ net[<<p, n>>][i].type = t
  /\ p \in sessions[n]

\* Message C comes first on a link; it is never lost here.
ReadC(n, p, i) ==
  /\ accepting[n] = None
  /\ i \in 1 .. Len(net[<<p, n>>])
  /\ net[<<p, n>>][i].type = "C"
  /\ Exchange(n, p, i, Nothing)
  /\ HandleC(n, p)

\* Anything from a node without a session is dropped.
Unreadable(n, p, i) ==
  /\ accepting[n] = None
  /\ i \in Readable(p, n)
  /\ net[<<p, n>>][i].type # "C"
  /\ p \notin sessions[n]
  /\ Exchange(n, p, i, Nothing)
  /\ UNCHANGED <<tables, tasks, received, used>>

\* Mutant of AddPath: the peer is entered as its own relay.
AddPathViaItself(n, d, r, h) ==
  /\ paths' = [paths EXCEPT ![n][d] = [via |-> d, hops |-> h]]
  /\ routes' = [routes EXCEPT ![n] = @ \cup {d}]

\* Add a path to d via r and the route it needs.
AddPath(n, d, r, h) ==
  /\ paths' = [paths EXCEPT ![n][d] = [via |-> r, hops |-> h]]
  /\ routes' = [routes EXCEPT ![n] = @ \cup {d}]

\* handle_session_init: the route is added; with two sessions or more, the
\* sender gets a directory and the others hear of the sender.
HandleSessionInit(n, p, i) ==
  LET others == sessions[n] \ {p}
      out == Then(To(p, Listing(Reachable(n, p))), ToAll(others, <<Directory(Direct({p}))>>))
  IN /\ Reads(n, p, i, "SessionInit")
     /\ routes' = [routes EXCEPT ![n] = @ \cup {p}]
     /\ Exchange(n, p, i, IF others # {} THEN out ELSE Nothing)
     /\ UNCHANGED <<sessions, joining, accepting, paths, candidates, known,
                    tasks, received, used>>

HandleAnnounce(n, p, i) ==
  /\ Reads(n, p, i, "RelayAnnounce")
  /\ candidates' = [candidates EXCEPT ![n] = @ \cup {p}]
  /\ Exchange(n, p, i, Nothing)
  /\ UNCHANGED <<sessions, joining, accepting, paths, routes, known,
                 tasks, received, used>>

\* Entries of a directory that improve on what n has: no session, and no path
\* or a longer one.
Adopted(n, E) ==
  {e \in E : /\ e.peer # n
             /\ e.peer \notin sessions[n]
             /\ paths[n][e.peer] = None \/ Succ8(e.hops) < paths[n][e.peer].hops}

\* Mutant of Passed: only neighbours' own entries, which is none, travel on.
PassedNone(n, E) == {}

\* Entries n passes on, one hop further away.
Passed(n, E) ==
  {[peer |-> e.peer, hops |-> Succ8(e.hops)] :
     e \in {f \in E : f.peer # n /\ f.hops < MAX_HOP_REBROADCAST}}

Requests(D) ==
  LET order == SetToSeq(D) IN [j \in 1 .. Len(order) |-> Request(order[j])]

\* handle_peer_directory: better paths go through the sender, which is asked
\* to relay; the entries travel on to everyone else.
HandleDirectory(n, p, i) ==
  LET E == net[<<p, n>>][i].entries
      better == Adopted(n, E)
      on == Passed(n, E)
      others == sessions[n] \ {p}
      Offered(d) == CHOOSE e \in better : e.peer = d
  IN /\ Reads(n, p, i, "PeerDirectory")
     /\ known' = [known EXCEPT ![n] = @ \cup ({e.peer : e \in E} \ {n})]
     /\ paths' = [paths EXCEPT ![n] = [d \in Node |->
          IF \E e \in better : e.peer = d
            THEN [via |-> p, hops |-> Succ8(Offered(d).hops)]
            ELSE paths[n][d]]]
     /\ routes' = [routes EXCEPT ![n] = @ \cup {e.peer : e \in better}]
     /\ Exchange(n, p, i, Then(To(p, Requests({e.peer : e \in better})), ToAll(others, Listing(on))))
     /\ UNCHANGED <<sessions, joining, accepting, candidates, tasks, received, used>>

\* handle_relay_request at a node with two sessions or more: d is a neighbour.
RelayDirect(n, p, i) ==
  LET d == net[<<p, n>>][i].dst
  IN /\ Reads(n, p, i, "RelayRequest")
     /\ Hub(n)
     /\ d \in sessions[n]
     /\ Exchange(n, p, i, Then(To(p, <<Ready(d, 1)>>), To(d, <<Ready(p, 1)>>)))
     /\ UNCHANGED <<tables, tasks, received, used>>

\* d is reached through the next relay, which is asked for the way back.
RelayOnward(n, p, i) ==
  LET d == net[<<p, n>>][i].dst
      next == paths[n][d]
  IN /\ Reads(n, p, i, "RelayRequest")
     /\ Hub(n)
     /\ d \notin sessions[n] /\ next # None
     /\ Exchange(n, p, i, Then(To(p, <<Ready(d, Succ8(next.hops))>>),
                               To(next.via, <<Request(p)>>)))
     /\ UNCHANGED <<tables, tasks, received, used>>

\* n has no way to d.
RelayRefused(n, p, i) ==
  LET d == net[<<p, n>>][i].dst
  IN /\ Reads(n, p, i, "RelayRequest")
     /\ Hub(n)
     /\ d \notin sessions[n] /\ paths[n][d] = None
     /\ Exchange(n, p, i, Nothing)
     /\ UNCHANGED <<tables, tasks, received, used>>

\* A node with one session takes the request as news of a way back to d.
RelayReturn(n, p, i) ==
  /\ Reads(n, p, i, "RelayRequest")
  /\ ~Hub(n)
  /\ AddPath(n, net[<<p, n>>][i].dst, p, 1)
  /\ Exchange(n, p, i, Nothing)
  /\ UNCHANGED <<sessions, joining, accepting, candidates, known,
                 tasks, received, used>>

\* RelayReady: the path is taken whatever n has already.
HandleReady(n, p, i) ==
  LET m == net[<<p, n>>][i]
  IN /\ Reads(n, p, i, "RelayReady")
     /\ AddPath(n, m.dst, p, m.hops)
     /\ Exchange(n, p, i, Nothing)
     /\ UNCHANGED <<sessions, joining, accepting, candidates, known,
                    tasks, received, used>>

\* Mutant of Kept: only paths are looked up, not neighbours.
KeptWithoutPath(n, d) == d = n \/ paths[n][d] = None

\* Data for d is kept: n is d, or neither neighbours it nor relays.
Kept(n, d) == d = n \/ (d \notin sessions[n] /\ n \notin relays)

\* handle_relay_data: data that is kept goes to n's TUN; other data travels on
\* if there is a way.
HandleData(n, p, i) ==
  LET m == net[<<p, n>>][i]
      next == paths[n][m.dst]
      mine == Kept(n, m.dst)
  IN /\ Reads(n, p, i, "RelayData")
     /\ received' = IF mine THEN received \cup {<<m.src, m.dst, n>>} ELSE received
     /\ Exchange(n, p, i,
          IF mine THEN Nothing
          ELSE IF m.dst \in sessions[n] THEN To(m.dst, <<m>>)
          ELSE IF next # None THEN To(next.via, <<m>>)
          ELSE Nothing)
     /\ UNCHANGED <<tables, tasks, used>>

-----------------------------------------------------------------------------
(* Outbound loop *)

\* A packet for d leaves through the relay of d's path.  (One for a neighbour
\* goes straight to it and touches nothing here.)
SendRelayed(n, d) ==
  /\ missed[n] = None
  /\ used.data < MaxData
  /\ d \in routes[n] \ sessions[n]
  /\ paths[n][d] # None
  /\ net' = Sent(n, IF paths[n][d].via \in sessions[n]
                      THEN To(paths[n][d].via, <<Data(n, d)>>) ELSE Nothing)
  /\ used' = [used EXCEPT !.data = @ + 1]
  /\ UNCHANGED <<tables, tasks, received>>

\* A packet has a route but neither a session nor a path.
Miss(n, d) ==
  /\ missed[n] = None
  /\ used.data < MaxData
  /\ d \in routes[n] \ sessions[n]
  /\ paths[n][d] = None
  /\ missed' = [missed EXCEPT ![n] = d]
  /\ used' = [used EXCEPT !.data = @ + 1]
  /\ UNCHANGED <<net, tables, relays, announced, received>>

\* Asking r for the peer missed asks for a path to r itself, which r takes for
\* news of one unless it has two sessions.
Selfish(n, r) == r = missed[n] /\ r \in sessions[n] /\ ~Hub(r)

\* The route is removed as stale, and one relay candidate is asked for a path.
DropRoute(n) ==
  LET d == missed[n]
  IN /\ d # None
     /\ missed' = [missed EXCEPT ![n] = None]
     /\ routes' = [routes EXCEPT ![n] = @ \ {d}]
     /\ IF candidates[n] = {}
          THEN UNCHANGED <<net, used>>
          ELSE \E r \in candidates[n] :
                 /\ net' = Sent(n, IF r \in sessions[n] THEN To(r, <<Request(d)>>) ELSE Nothing)
                 /\ used' = [used EXCEPT !.selfish = @ \/ Selfish(n, r)]
     /\ UNCHANGED <<sessions, joining, accepting, paths, candidates, known,
                    relays, announced, received>>

-----------------------------------------------------------------------------
(* One-off tasks *)

\* STUN finds a routable address.
Stun(n) ==
  /\ n \in Routable \ relays
  /\ relays' = relays \cup {n}
  /\ UNCHANGED <<net, tables, announced, missed, received, used>>

\* The broadcast after STUN, or after five seconds without it.
Broadcast(n) ==
  /\ n \notin announced
  /\ announced' = announced \cup {n}
  /\ net' = Sent(n, [p \in Node |->
       IF Hub(n) /\ p \in sessions[n]
         THEN Listing(Reachable(n, p)) ELSE <<>>])
  /\ UNCHANGED <<tables, relays, missed, received, used>>

-----------------------------------------------------------------------------
Receive(n, p, i) ==
  \/ ReadC(n, p, i)
  \/ Unreadable(n, p, i)
  \/ HandleSessionInit(n, p, i)
  \/ HandleAnnounce(n, p, i)
  \/ HandleDirectory(n, p, i)
  \/ RelayDirect(n, p, i)
  \/ RelayOnward(n, p, i)
  \/ RelayRefused(n, p, i)
  \/ RelayReturn(n, p, i)
  \/ HandleReady(n, p, i)
  \/ HandleData(n, p, i)

\* What the daemons do by themselves.
Step ==
  \/ \E n, p \in Node : Dial(n, p) \/ Insert(n, p) \/ Register(n, p)
  \/ \E n, p \in Node : \E i \in Readable(p, n) : Receive(n, p, i)
  \/ \E n \in Node : DropRoute(n) \/ Stun(n) \/ Broadcast(n)

Next ==
  \/ Step
  \/ \E n, p \in Node : AskRelays(n, p)
  \/ \E n, d \in Node : SendRelayed(n, d) \/ Miss(n, d)
  \/ \E n, p \in Node : \E i \in 1 .. Len(net[<<p, n>>]) : Lose(p, n, i)

Spec == Init /\ [][Next]_vars

(* Fairness: the network of daemons goes on while one of them can, which is  *)
(* less than that every task keeps running and every datagram that is not    *)
(* lost arrives; nothing is assumed of the TUN device or of faults.          *)
Fairness == WF_vars(Step)

FairSpec == Spec /\ Fairness

-----------------------------------------------------------------------------
(* Invariants *)

TypeOK ==
  /\ net \in [Channel -> Seq(Msg)]
  /\ sessions \in [Node -> SUBSET Node]
  /\ joining \in [Node -> [Node -> {"idle", "finished", "inserted"}]]
  /\ accepting \in [Node -> Node \cup {None}]
  /\ paths \in [Node -> [Node -> Path \cup {None}]]
  /\ routes \in [Node -> SUBSET Node]
  /\ candidates \in [Node -> SUBSET Node]
  /\ known \in [Node -> SUBSET Node]
  /\ relays \subseteq Node /\ announced \subseteq Node
  /\ missed \in [Node -> Node \cup {None}]
  /\ received \subseteq Node \X Node \X Node
  /\ used \in [data : Nat, loss : Nat, timeout : Nat, selfish : BOOLEAN]

\* The next hop of a relay path is a neighbour: the forwarding code drops the
\* packet without a word if it is not (inbound.rs:724-738, outbound.rs:68-87).
NextHopIsNeighbour ==
  \A n, d \in Node : paths[n][d] # None => paths[n][d].via \in sessions[n]

\* No node has a path or a route to itself, nor a path to a peer through that
\* very peer (inbound.rs:508, 616-628, 650-662, 665-676).
NothingToSelf ==
  \A n \in Node :
    /\ paths[n][n] = None /\ n \notin routes[n] \cup sessions[n]
    /\ \A d \in Node : paths[n][d] # None => paths[n][d].via # d

\* Directories, requests, confirmations and handshakes in any order lead no
\* node to itself, although each of them names both ends of a path: only the
\* outbound loop can, by asking the peer it missed for a path to that peer
\* (inbound.rs:278-308, 508, 616-676, outbound.rs:88-115).
OnlySelfishToSelf == ~used.selfish => NothingToSelf

\* A route leads to a session or a path, except while a finished handshake
\* replaces the one by the other (handshake.rs:107-123, inbound.rs:113-133).
RoutesResolve ==
  \A n \in Node : \A d \in routes[n] :
    d \in sessions[n] \/ paths[n][d] # None \/ joining[n][d] = "finished"

\* Register comes after Insert.
JoinsHaveSession ==
  \A n, p \in Node : joining[n][p] = "inserted" => p \in sessions[n]

\* The relay of a path is a hub.
RelaysAreHubs == \A n, d \in Node : paths[n][d] # None => Hub(paths[n][d].via)

\* What may be under way from n to p: hubs send directories and confirmations,
\* a request has a hub at one of its ends, and data goes to its destination or
\* through a hub.
Proper(n, p, m) ==
  /\ m.type \in {"PeerDirectory", "RelayReady"} => Hub(n)
  /\ m.type = "RelayRequest" => Hub(n) \/ Hub(p)
  /\ m.type = "RelayData" => m.dst = p \/ Hub(p)

MessagesProper ==
  \A c \in Channel : \A i \in DOMAIN net[c] : Proper(c[1], c[2], net[c][i])

\* A node with a route beyond its neighbours, or one it is about to give up, is
\* a hub or has hubs for neighbours only.
RoutesNeedHubs ==
  \A n \in Node :
    ~(routes[n] \subseteq sessions[n]) \/ missed[n] # None =>
      sessions[n] # {} /\ (Hub(n) \/ \A q \in sessions[n] : Hub(q))

\* The inductive invariant behind NextHopIsNeighbour, RoutesResolve and, with
\* SelfInv, OnlySelfishToSelf and DeliveredAtDestination.
RelayInv ==
  /\ TypeOK /\ JoinsHaveSession /\ NextHopIsNeighbour /\ RoutesResolve
  /\ RelaysAreHubs /\ MessagesProper /\ RoutesNeedHubs

\* Where every node in the middle of a path is neighbour of the destination or
\* can relay, relayed data is only ever put on the TUN device it was sent to,
\* whatever paths are replaced while it is under way (inbound.rs:693-739).
DeliveredAtDestination == \A m \in received : m[3] = m[2]

\* What it takes for DeliveredAtDestination: a node two others can meet at has
\* its relay flag set or is neighbour of everyone (inbound.rs:586-588, 693-695).
HubsForward == \A n \in Node : Hub(n) => n \in relays \/ Node \ {n} \subseteq sessions[n]

\* What may be under way from n to p where nothing points to itself: requests
\* and confirmations name third nodes, or a request comes back to a hub, which
\* takes nothing from it.
Foreign(n, p, m) ==
  /\ m.type = "C" => n # p
  /\ m.type = "RelayRequest" => m.dst # n /\ (m.dst = p => Hub(p))
  /\ m.type = "RelayReady" => m.dst \notin {n, p}

\* What is inductive, with RelayInv and until a peer is asked for a path to
\* itself, behind NothingToSelf.
SelfInv ==
  /\ NothingToSelf
  /\ \A n \in Node : joining[n][n] = "idle" /\ missed[n] # n
  /\ \A c \in Channel : \A i \in DOMAIN net[c] : Foreign(c[1], c[2], net[c][i])

-----------------------------------------------------------------------------
(* Reachability *)

NextHop(n, d) ==
  IF d \in sessions[n] THEN d ELSE IF paths[n][d] # None THEN paths[n][d].via ELSE None

\* travels[k][n]: data for d that has reached n gets to d within k more hops.
Arrives(n, d) ==
  LET travels[k \in Nat, m \in Node] ==
        \/ m = d
        \/ /\ k > 0
           /\ m = n \/ ~Kept(m, d)
           /\ NextHop(m, d) # None
           /\ travels[k - 1, NextHop(m, d)]
  IN d \in routes[n] /\ travels[Cardinality(Node), n]

\* Every device of the network can in the end send to every other, and stays
\* able to, in whatever order the links came up (README.md:9-10,
\* lib.rs:394-396).
EveryoneReachable ==
  <>[](\A n, d \in Node : n # d => Arrives(n, d))
=============================================================================
