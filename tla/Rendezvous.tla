----------------------------- MODULE Rendezvous -----------------------------
(***************************************************************************)
(* How devices come to know addresses of each other: the engine's start    *)
(* binds a port, asks STUN servers for its public address, announces a     *)
(* port on the DHT and to the trackers, and the discovery loop dials what  *)
(* both return (core/src/lib.rs, core/src/discovery.rs, nat/src/stun.rs,   *)
(* dht/src/lib.rs, tracker/src/lib.rs, core/src/net.rs).                   *)
(*                                                                         *)
(* The STUN query and the inbound loop receive from the same UDP socket.   *)
(* Whoever is first takes a datagram, and has no use for the other's.      *)
(*                                                                         *)
(* Abstracted: an address is a host and a port; a NAT lets in what comes   *)
(* to a port it gave; the first message of a handshake stands for all of   *)
(* it, and a device seen once is not dialled again (Handshake has the      *)
(* rest).  The DHT keeps the last port a device has announced.  The list   *)
(* of STUN servers has any length, and where their packets are filtered    *)
(* none ever answers.  The first query is over when the refresh begins,    *)
(* 300 s later.                                                            *)
(***************************************************************************)
EXTENDS Naturals, FiniteSets

CONSTANTS
  Node,
  Settled,    \* devices that have been up for long
  Home,       \* Home[n]: the host n runs on, or the NAT it is behind
  None,
  Preferred,  \* config.port, which the seed determines
  Tries,      \* ports tried from there (10 in the code)
  Taken,      \* Taken[h]: ports other programs of h have bound
  Natted,     \* hosts whose NAT gives a device another port
  Outside,    \* the ports it gives
  Filtered,   \* hosts that no STUN server's answer gets through to
  Metadata,   \* hosts that may find a public address without STUN
  Routable,   \* hosts whose public address is_publicly_routable
  MaxMoves    \* bound on ports a NAT changes

Host == {Home[n] : n \in Node}

ASSUME RendezvousAssumption ==
  /\ {Preferred, Tries, MaxMoves} \subseteq Nat
  /\ Outside \subseteq Nat /\ \A h \in Host : Taken[h] \subseteq Nat
  /\ Natted \cup Filtered \cup Metadata \cup Routable \subseteq Host
  /\ \A n \in Settled : n \in Node /\ Home[n] \notin Natted /\ Preferred \notin Taken[Home[n]]
  /\ \A n, m \in Settled : n # m => Home[n] # Home[m]
  /\ None \notin Node \cup Nat /\ None \notin Host \X (Nat \cup {None})

VARIABLES
  bound,       \* bound[n]: bound_port, None before the start
  mapped,      \* mapped[n]: the port its NAT has given n
  socket,      \* socket[n]: datagrams nobody has received yet
  query,       \* query[n]: the STUN query, [at, first, addr]
  stun,        \* stun[n]: stun_public_addr
  relay,       \* relay[n]: can_relay_flag
  announce,    \* announce[n]: the port each task is announcing, or None
  booted,      \* devices whose bootstrap is over
  registered,  \* registered[n]: the port the DHT has for n
  trackers,    \* addresses the trackers hand out
  asked,       \* devices that have asked the trackers
  known,       \* known[n]: tracker_addrs
  met,         \* {n, m}: one has received the first message of the other
  moves        \* ports changed so far

net  == <<bound, mapped, socket>>
own  == <<query, stun, relay>>
dht  == <<announce, booted, registered>>
peers == <<trackers, asked, known, met>>
vars == <<net, own, dht, peers, moves>>

FirstQuery == [at |-> "idle", first |-> TRUE, addr |-> None]
NoQuery == [FirstQuery EXCEPT !.first = FALSE]

Ready(x, y) == [n \in Node |-> IF n \in Settled THEN x[n] ELSE y]

Init ==
  LET port == [n \in Node |-> Preferred] IN
  /\ bound = Ready(port, None) /\ registered = bound
  /\ mapped = [n \in Node |-> None]
  /\ socket = [n \in Node |-> {}] /\ known = socket
  /\ stun = Ready([n \in Node |-> <<Home[n], Preferred>>], None)
  /\ relay = [n \in Node |-> n \in Settled /\ Home[n] \in Routable]
  /\ query = Ready([n \in Node |-> NoQuery], FirstQuery)
  /\ announce = [n \in Node |-> [boot |-> None, periodic |-> None]]
  /\ trackers = {<<Home[n], Preferred>> : n \in Settled}
  /\ asked = Settled /\ booted = Settled
  /\ met = {} /\ moves = 0

Started(n) == bound[n] # None
Outer(n) == IF Home[n] \in Natted THEN mapped[n] ELSE bound[n]
Public(n) == <<Home[n], Outer(n)>>

\* The port of the NAT that a socket is given: the first that none has.
Gives(p, h) ==
  LET free(q) == \A m \in Node : Home[m] = h => mapped[m] # q
  IN p \in Outside /\ free(p) /\ \A q \in Outside : free(q) => p <= q

\* The first port from Preferred on that can be bound.
Binds(p, h) ==
  LET free(q) == q \notin Taken[h] /\ \A m \in Node : Home[m] = h => bound[m] # q
  IN free(p) /\ \A q \in Preferred .. (p - 1) : ~free(q)

\* The engine starts: the socket, then the tasks.
Start(n) ==
  /\ ~Started(n)
  /\ \E p \in Preferred .. (Preferred + Tries - 1) :
       Binds(p, Home[n]) /\ bound' = [bound EXCEPT ![n] = p]
  /\ \E p \in Outside :
       /\ Gives(p, Home[n])
       /\ mapped' = IF Home[n] \in Natted THEN [mapped EXCEPT ![n] = p] ELSE mapped
  /\ UNCHANGED <<socket, own, dht, peers, moves>>

-----------------------------------------------------------------------------
(* STUN *)

Mapped(x) == [type |-> "mapped", addr |-> x, from |-> None]
Hello(n) == [type |-> "hello", addr |-> None, from |-> n]
Goto(n, q) == query' = [query EXCEPT ![n] = q]
Takes(n, d) == d \in socket[n] /\ socket' = [socket EXCEPT ![n] = @ \ {d}]
Answered(n) == [socket EXCEPT ![n] = @ \cup {Mapped(Public(n))}]

\* A request to a server, and its answer, which may not come: when the engine
\* starts and every 300 s the first server of the list, after three seconds in
\* vain the next.
Ask(n) ==
  /\ Started(n) /\ query[n].at \in {"idle", "wait"}
  /\ Goto(n, [query[n] EXCEPT !.at = "wait"])
  /\ socket' \in {socket} \cup (IF Home[n] \in Filtered THEN {} ELSE {Answered(n)})
  /\ UNCHANGED <<bound, mapped, stun, relay, dht, peers, moves>>

\* Whatever does not look like STUN is ignored, and gone.
Swallow(n) ==
  /\ query[n].at = "wait"
  /\ \E d \in socket[n] : d.type # "mapped" /\ Takes(n, d)
  /\ UNCHANGED <<bound, mapped, own, dht, peers, moves>>

SetFlag(n, x) == relay' = [relay EXCEPT ![n] = x[1] \in Routable]

\* The first query has an address: it stores the flag, and then the address.
StoreFlag(n, x) ==
  /\ SetFlag(n, x)
  /\ Goto(n, [query[n] EXCEPT !.at = "flagged", !.addr = x])
  /\ UNCHANGED stun

StoreAddr(n) ==
  /\ query[n].at = "flagged"
  /\ stun' = [stun EXCEPT ![n] = query[n].addr]
  /\ Goto(n, NoQuery)
  /\ UNCHANGED <<net, relay, dht, peers, moves>>

\* The refresh takes the lock of the address to write, and if it is a new one
\* stores it, and then the flag, which is read without a lock.
StoreNew(n, x) ==
  /\ stun' = [stun EXCEPT ![n] = x]
  /\ Goto(n, IF stun[n] = x THEN NoQuery ELSE [query[n] EXCEPT !.at = "addressed", !.addr = x])
  /\ UNCHANGED relay

\* Mutant of StoreNewFlag: the flag is left as it was.
LeaveFlag(n) ==
  /\ query[n].at = "addressed"
  /\ Goto(n, NoQuery)
  /\ UNCHANGED <<net, stun, relay, dht, peers, moves>>

StoreNewFlag(n) ==
  /\ query[n].at = "addressed"
  /\ SetFlag(n, query[n].addr)
  /\ Goto(n, NoQuery)
  /\ UNCHANGED <<net, stun, dht, peers, moves>>

\* The lock of the address is not taken to write.
Readable(n) == query[n].at # "addressed"

GetAnswer(n) ==
  /\ query[n].at = "wait"
  /\ \E d \in socket[n] :
       /\ d.type = "mapped" /\ Takes(n, d)
       /\ IF query[n].first THEN StoreFlag(n, d.addr) ELSE StoreNew(n, d.addr)
  /\ UNCHANGED <<bound, mapped, dht, peers, moves>>

\* No server has answered: the first query tries local_public_ip, which finds
\* a routable address or none; the refresh keeps what it had.
NoAnswer(n) ==
  /\ query[n].at = "wait"
  /\ \/ /\ query[n].first /\ Home[n] \in Metadata \cap Routable
        /\ StoreFlag(n, <<Home[n], bound[n]>>)
     \/ Goto(n, NoQuery) /\ UNCHANGED <<stun, relay>>
  /\ UNCHANGED <<net, dht, peers, moves>>

-----------------------------------------------------------------------------
(* DHT and trackers *)

PortOr(n, fallback) == IF stun[n] = None THEN fallback ELSE stun[n][2]

\* After the bootstrap, or fifteen seconds.
BootAnnounce(n) ==
  /\ Started(n) /\ n \notin booted /\ Readable(n)
  /\ booted' = booted \cup {n}
  /\ announce' = [announce EXCEPT ![n].boot = PortOr(n, bound[n])]
  /\ UNCHANGED <<net, own, registered, peers, moves>>

\* Mutant of PeriodicAnnounce: the port announced is always the preferred one.
PeriodicAnnouncePreferred(n) ==
  /\ Started(n) /\ announce[n].periodic = None /\ Readable(n)
  /\ announce' = [announce EXCEPT ![n].periodic = Preferred]
  /\ UNCHANGED <<net, own, booted, registered, peers, moves>>

\* At once and every 300 s: without a public address the preferred port, which
\* need not be the one bound.
PeriodicAnnounce(n) ==
  /\ Started(n) /\ announce[n].periodic = None /\ Readable(n)
  /\ announce' = [announce EXCEPT ![n].periodic = PortOr(n, Preferred)]
  /\ UNCHANGED <<net, own, booted, registered, peers, moves>>

\* An announcement reaches the DHT.  One that fails is one not made.
Announced(n, task) ==
  /\ announce[n][task] # None
  /\ announce' = [announce EXCEPT ![n][task] = None]
  /\ registered' = [registered EXCEPT ![n] = announce[n][task]]
  /\ UNCHANGED <<net, own, booted, peers, moves>>

\* Trackers are asked once, and told the port that is bound.  One that fails
\* yields no address, as one that never answers.
AskTrackers(n) ==
  /\ Started(n) /\ n \notin asked
  /\ asked' = asked \cup {n}
  /\ trackers' = trackers \cup {<<Home[n], bound[n]>>}
  /\ known' = [known EXCEPT ![n] = @ \cup trackers']
  /\ UNCHANGED <<net, own, dht, met, moves>>

-----------------------------------------------------------------------------
(* Discovery *)

Listed == {<<Home[m], registered[m]>> : m \in {m \in Node : registered[m] # None}}

\* The devices that are dialled for a set of addresses, each address reaching
\* whoever has it now.  What a device sends to itself is left out.
Reached(n, S) == {m \in Node \ {n} : Started(m) /\ Public(m) \in S /\ {n, m} \notin met}

Dials(n, S) ==
  /\ Started(n) /\ Readable(n)
  /\ socket' = [m \in Node |-> IF m \in Reached(n, S) THEN socket[m] \cup {Hello(n)} ELSE socket[m]]
  /\ UNCHANGED <<bound, mapped, own, dht, peers, moves>>

\* Mutant of Cycle: the DHT is not looked up.
CycleTrackersOnly(n) == Dials(n, known[n] \ {stun[n]})

\* One round of the discovery loop.
Cycle(n) == Dials(n, (known[n] \cup Listed) \ {stun[n]})

\* The inbound loop: the first message of a handshake; a STUN answer is not
\* understood.
Receive(n) ==
  \E d \in socket[n] :
    /\ Takes(n, d)
    /\ met' = met \cup {{m, n} : m \in {d.from} \ {None}}
    /\ UNCHANGED <<bound, mapped, own, dht, trackers, asked, known, moves>>

\* The NAT gives the socket another port.
Move(n) ==
  /\ Home[n] \in Natted /\ Started(n) /\ moves < MaxMoves
  /\ moves' = moves + 1
  /\ \E p \in Outside : Gives(p, Home[n]) /\ mapped' = [mapped EXCEPT ![n] = p]
  /\ UNCHANGED <<bound, socket, own, dht, peers>>

-----------------------------------------------------------------------------
Main(n) == Start(n) \/ Ask(n) \/ NoAnswer(n) \/ StoreAddr(n) \/ StoreNewFlag(n)
BootTask(n) == BootAnnounce(n) \/ Announced(n, "boot")
PeriodicTask(n) == PeriodicAnnounce(n) \/ Announced(n, "periodic")

Next ==
  \E n \in Node :
    \/ Main(n) \/ GetAnswer(n) \/ Swallow(n)
    \/ BootTask(n) \/ PeriodicTask(n)
    \/ AskTrackers(n) \/ Cycle(n) \/ Receive(n) \/ Move(n)

Spec == Init /\ [][Next]_vars

\* Tasks and timers of a device that starts go on, though the first
\* announcement may never get through, no STUN server need ever answer, and the
\* query may lose every race for an answer.  The inbound loop does not lose every
\* race for the first message of a handshake, which is sent again and again.
\* Devices that have been up for long need only receive.
Fairness ==
  /\ \A n \in Node \ Settled :
       WF_vars(Main(n)) /\ WF_vars(PeriodicTask(n)) /\ WF_vars(Cycle(n))
  /\ SF_vars(\E n \in Node : Receive(n) /\ met' # met)

FairSpec == Spec /\ Fairness

-----------------------------------------------------------------------------
(* Properties *)

Port == Nat \cup {None}
Addr == Host \X Port
Datagram ==
  [type : {"mapped"}, addr : Addr, from : {None}] \cup [type : {"hello"}, addr : {None}, from : Node]

TypeOK ==
  /\ bound \in [Node -> Port] /\ mapped \in [Node -> Port] /\ registered \in [Node -> Port]
  /\ socket \in [Node -> SUBSET Datagram]
  /\ query \in [Node -> [at : {"idle", "wait", "flagged", "addressed"}, first : BOOLEAN, addr : Addr \cup {None}]]
  /\ stun \in [Node -> Addr \cup {None}] /\ relay \in [Node -> BOOLEAN]
  /\ announce \in [Node -> [boot : Port, periodic : Port]]
  /\ met \subseteq SUBSET Node

Capable(x) == x # None /\ x[1] \in Routable

\* The relay flag says what the stored address does, whichever task stored
\* them in which order; between the two stores of the first query it is ahead,
\* with what that query has found, and between those of the refresh, while the
\* address is locked, it may be behind (lib.rs:228-231, 641-645).
FlagMatchesAddress ==
  \A n \in Node :
    CASE query[n].at = "flagged" ->
           query[n].addr # None /\ relay[n] = Capable(query[n].addr)
      [] query[n].at = "addressed" -> stun[n] # None /\ stun[n] = query[n].addr
      [] OTHER -> relay[n] = Capable(stun[n])

RendezvousInv == TypeOK /\ FlagMatchesAddress

\* In the end the DHT has the port a device can be reached at
\* (dht/src/lib.rs:11-12).
RegistryLeadsHere == <>[](\A n \in Node : registered[n] = Outer(n))

\* It has, for a device that in the end knows its public address, although
\* early announcements, made before STUN has answered or the NAT moved, may
\* arrive late, and two tasks announce (lib.rs:275-285, 481-488).
RegistryLeadsToInformed ==
  \A n \in Node : <>[](stun[n] = Public(n)) => <>[](registered[n] = Outer(n))

\* Every two devices find each other, although the STUN query swallows
\* what it finds in the socket (stun.rs:75-81) and the trackers are told the
\* port inside the NAT.
EveryoneIsReached == <>(\A n, m \in Node : n # m => {n, m} \in met)
=============================================================================
