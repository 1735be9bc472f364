----------------------------- MODULE Handshake ------------------------------
(***************************************************************************)
(* core/src/{discovery,handshake,inbound}.rs: how two nodes get from a     *)
(* discovered address to a Noise session.                                  *)
(*                                                                         *)
(* Per node: a discovery loop that spawns one initiator task per address   *)
(* it is not connected to; the tasks; and one inbound loop that takes      *)
(* datagrams one at a time and runs the responder side.  They share the    *)
(* pending, sessions and addr_index maps, which no common lock covers, and *)
(* run in parallel: a new session is stored in one step and indexed in     *)
(* another.  A background task stores what STUN answers, whenever it does. *)
(*                                                                         *)
(* A handshake is named by the ephemeral keys of its two ends: an          *)
(* initiator attempt i and a responder attempt r.  Two transports          *)
(* understand each other exactly when both are equal.  An ephemeral that   *)
(* nothing refers to any more may be drawn again, so that retries are      *)
(* unbounded and the state space is finite.                                *)
(*                                                                         *)
(* "A", "B", "C" are the three messages of Noise XX; "D" is the            *)
(* SessionInit each end sends on its new session, and stands for all data. *)
(* Of a session's replay window only this is kept: whether a foreign       *)
(* handshake datagram has pushed it beyond every nonce the peer will use   *)
(* ("deaf", see NonceWindow).  Relays, routes and the peer registry have   *)
(* modules of their own.                                                   *)
(***************************************************************************)
EXTENDS Naturals, FiniteSets

CONSTANTS
  Node,       \* devices of one network
  Addr,       \* UDP addresses
  OwnerOf,    \* OwnerOf[x]: the node that receives datagrams sent to x
  Source,     \* Source[n][x]: the address x's owner sees when n sends to x
  Discovers,  \* Discovers[n]: addresses DHT and trackers give to n
  StunFinds,  \* StunFinds[n]: public addresses STUN may tell n it has
  Slot,       \* bound: ephemerals per node alive at one time
  Ordered,    \* datagrams of one handshake keep their order on a link
  Patient,    \* a round trip < HANDSHAKE_TIMEOUT < DISCOVERY_INTERVAL, and a
              \* restart takes longer than what is on its way
  Losable,    \* types of datagram the network may lose
  MaxLoss, MaxDup, MaxRestart,   \* bounds on losses, duplications, restarts
  None

Eph == Node \X Slot
Key == [i : Eph, r : Eph]
Offer == [i : Eph, r : Eph, stale : BOOLEAN]
Session == [i : Eph, r : Eph, underlay : Addr, deaf : BOOLEAN]
Greeting == [peer : Node, to : Addr, indexed : BOOLEAN]
Msg == [type : {"A", "B", "C", "D"}, i : Eph, r : Eph \cup {None},
        src : Addr, dst : Addr]

ASSUME HandshakeAssumption ==
  /\ OwnerOf \in [Addr -> Node]
  /\ Source \in [Node -> [Addr -> Addr]]
  /\ Discovers \in [Node -> SUBSET Addr]
  /\ StunFinds \in [Node -> SUBSET Addr]
  /\ Ordered \in BOOLEAN /\ Patient \in BOOLEAN
  /\ Losable \subseteq {"A", "B", "C", "D"}
  /\ MaxLoss \in Nat /\ MaxDup \in Nat /\ MaxRestart \in Nat
  /\ None \notin Eph \cup Key \cup Offer \cup Session \cup Greeting \cup Msg
  /\ None \notin Node \cup Addr

VARIABLES
  net,         \* datagrams in flight
  pc,          \* pc[k]: progress of initiator attempt k
  target,      \* target[k]: the address attempt k dials
  reply,       \* reply[k]: the message B handed to attempt k
  pending,     \* pending[n][x]: attempt waiting for a message B from x
  responders,  \* pending_responders[n][x]: responder waiting for message C
  sessions,    \* sessions[n][p]
  addrIndex,   \* addr_index[n][x]
  greeting,    \* greeting[n]: the session the inbound loop of n has stored,
               \* on its way to the index and to sending SessionInit
  stun,        \* stun_addr[n]: the public address n knows of itself
  installed,   \* history, installed[n]: transports n has put into sessions
  reinstalled, \* history: those n put there a second time
  blind,       \* history: attempts spawned before STUN had answered
  faults       \* losses, duplications and restarts so far

tasks == <<pc, target, reply>>
tables == <<pending, responders, sessions, addrIndex, greeting>>
history == <<installed, reinstalled>>
self == <<stun, blind>>
vars == <<net, tasks, tables, history, self, faults>>

Init ==
  /\ net = {}
  /\ pc = [k \in Eph |-> "done"]
  /\ target = [k \in Eph |-> None]
  /\ reply = [k \in Eph |-> None]
  /\ pending = [n \in Node |-> [x \in Addr |-> None]]
  /\ responders = [n \in Node |-> [x \in Addr |-> None]]
  /\ sessions = [n \in Node |-> [p \in Node |-> None]]
  /\ addrIndex = [n \in Node |-> [x \in Addr |-> None]]
  /\ greeting = [n \in Node |-> None]
  /\ installed = [n \in Node |-> {}]
  /\ reinstalled = {}
  /\ stun = [n \in Node |-> None]
  /\ blind = {}
  /\ faults = [loss |-> 0, dup |-> 0, restart |-> 0]

-----------------------------------------------------------------------------
(* Ephemerals and transports *)

Mentions(rec, k) == rec # None /\ (rec.i = k \/ rec.r = k)

\* The responders that pending_responders.retain would leave: those younger
\* than HANDSHAKE_TIMEOUT.
Retained(n) ==
  [x \in Addr |-> IF responders[n][x] # None /\ responders[n][x].stale
                    THEN None ELSE responders[n][x]]

\* Nothing in the system can use ephemeral k any more.
Free(k) ==
  /\ pc[k] = "done"
  /\ \A j \in Eph : ~Mentions(reply[j], k)
  /\ \A m \in net : ~Mentions(m, k)
  /\ \A n \in Node :
       /\ \A x \in Addr : ~Mentions(Retained(n)[x], k) /\ pending[n][x] # k
       /\ \A p \in Node : ~Mentions(sessions[n][p], k)

\* The transports of n's history that do not involve k, a key drawn anew.
Forget(k) == [n \in Node |-> {key \in installed[n] : ~Mentions(key, k)}]

\* Put the transport of handshake <<i, r>>, reached at x, into n's session
\* table under p.
StoreSession(n, p, i, r, x) ==
  /\ sessions' = [sessions EXCEPT ![n][p] =
                    [i |-> i, r |-> r, underlay |-> x, deaf |-> FALSE]]
  /\ installed' = [installed EXCEPT ![n] = @ \cup {[i |-> i, r |-> r]}]
  /\ reinstalled' = IF [i |-> i, r |-> r] \in installed[n]
                      THEN reinstalled \cup {[i |-> i, r |-> r]}
                      ELSE reinstalled

\* Mutant of IndexSession: addr_index is not told.
IndexNothing(n, p, x) == UNCHANGED addrIndex

\* The next step of whoever stored it: datagrams from x belong to p.
IndexSession(n, p, x) == addrIndex' = [addrIndex EXCEPT ![n][x] = p]

-----------------------------------------------------------------------------
(* The network *)

Packet(t, i, r, n, x) == [type |-> t, i |-> i, r |-> r, src |-> Source[n][x], dst |-> x]

\* The SessionInit n sends to x on its current session with p.
SessionInit(n, p, x) == Packet("D", sessions[n][p].i, sessions[n][p].r, n, x)

Rank(m) == IF m.type = "D" THEN 3 ELSE IF m.type = "C" THEN 2 ELSE 1

\* m may be the next datagram its receiver reads.
Deliverable(m) ==
  /\ m \in net
  /\ Ordered => \A o \in net :
       o.src = m.src /\ o.dst = m.dst /\ o.i = m.i => Rank(m) <= Rank(o)

\* m is read and `out` is sent; the network may keep a copy of m.
Exchange(m, out) ==
  \/ net' = (net \ {m}) \cup out /\ UNCHANGED faults
  \/ /\ faults.dup < MaxDup
     /\ net' = net \cup out
     /\ faults' = [faults EXCEPT !.dup = @ + 1]

Lose(m) ==
  /\ m \in net
  /\ m.type \in Losable
  /\ faults.loss < MaxLoss
  /\ net' = net \ {m}
  /\ faults' = [faults EXCEPT !.loss = @ + 1]
  /\ UNCHANGED <<tasks, tables, history, self>>

-----------------------------------------------------------------------------
(* Discovery loop and initiator tasks *)

Connected(n, x) ==
  addrIndex[n][x] # None /\ sessions[n][addrIndex[n][x]] # None

\* Task k returns.
End(k) ==
  /\ pc' = [pc EXCEPT ![k] = "done"]
  /\ target' = [target EXCEPT ![k] = None]
  /\ reply' = [reply EXCEPT ![k] = None]

\* Mutant of Skip: the node's own address is dialled like any other.
SkipNotSelf(n, x) == Connected(n, x) \/ pending[n][x] # None

\* Addresses the discovery loop skips.
Skip(n, x) == x = stun[n] \/ Connected(n, x) \/ pending[n][x] # None

\* run_discovery_loop reaches x and spawns do_initiator_handshake as task k.
Discover(n, x, k) ==
  /\ x \in Discovers[n]
  /\ ~Skip(n, x)
  /\ Patient => \A j \in Eph : j[1] = n => target[j] # x
  /\ k[1] = n
  /\ Free(k)
  /\ addrIndex' = [addrIndex EXCEPT ![n][x] = None]
  /\ pc' = [pc EXCEPT ![k] = "spawned"]
  /\ target' = [target EXCEPT ![k] = x]
  /\ reply' = [reply EXCEPT ![k] = None]
  /\ installed' = Forget(k)
  /\ blind' = IF stun[n] = None THEN blind \cup {k} ELSE blind \ {k}
  /\ UNCHANGED <<net, pending, responders, sessions, greeting, reinstalled,
                 stun, faults>>

\* A STUN server answers the first query or a later one; it may never.
StunAnswers(n) ==
  \E x \in StunFinds[n] \ {stun[n]} :
    /\ stun' = [stun EXCEPT ![n] = x]
    /\ UNCHANGED <<net, tasks, tables, history, blind, faults>>

\* The task gives up if the address is already being dialled; otherwise it
\* registers itself and sends message A.
SendA(k) ==
  LET n == k[1]
      x == target[k]
  IN /\ pc[k] = "spawned"
     /\ IF pending[n][x] # None
          THEN End(k) /\ UNCHANGED <<net, pending>>
          ELSE /\ pc' = [pc EXCEPT ![k] = "waiting"]
               /\ pending' = [pending EXCEPT ![n][x] = k]
               /\ net' = net \cup {Packet("A", k, None, n, x)}
               /\ UNCHANGED <<target, reply>>
     /\ UNCHANGED <<responders, sessions, addrIndex, greeting,
                    history, self, faults>>

\* The send fails, which is a loss; in message A's case the task's entry in
\* pending is withdrawn again.
SendFails(k) ==
  /\ \/ pc[k] = "spawned" /\ pending[k[1]][target[k]] = None /\ "A" \in Losable
     \/ pc[k] = "replied" /\ reply[k].i = k /\ "C" \in Losable
  /\ faults.loss < MaxLoss
  /\ End(k)
  /\ faults' = [faults EXCEPT !.loss = @ + 1]
  /\ UNCHANGED <<net, tables, history, self>>

\* read_message_b, finish and message C.  A message B that answers another
\* attempt does not decrypt; a node that reached itself stops after message C.
SendC(k) ==
  LET n == k[1]
      x == target[k]
      got == reply[k]
  IN /\ pc[k] = "replied"
     /\ IF got.i # k
          THEN End(k) /\ UNCHANGED net
          ELSE /\ net' = net \cup {Packet("C", k, got.r, n, x)}
               /\ IF got.r[1] = n
                    THEN End(k)
                    ELSE /\ pc' = [pc EXCEPT ![k] = "finished"]
                         /\ UNCHANGED <<target, reply>>
     /\ UNCHANGED <<tables, history, self, faults>>

\* The session enters the table.
Install(k) ==
  /\ pc[k] = "finished"
  /\ StoreSession(k[1], reply[k].r[1], k, reply[k].r, target[k])
  /\ pc' = [pc EXCEPT ![k] = "stored"]
  /\ UNCHANGED <<net, target, reply, pending, responders, addrIndex, greeting,
                 self, faults>>

\* Its address enters the index.
Index(k) ==
  /\ pc[k] = "stored"
  /\ IndexSession(k[1], reply[k].r[1], target[k])
  /\ pc' = [pc EXCEPT ![k] = "installed"]
  /\ UNCHANGED <<net, target, reply, pending, responders, sessions, greeting,
                 history, self, faults>>

\* SessionInit goes out on whatever session the peer has by now.
Greet(k) ==
  LET n == k[1]
      p == reply[k].r[1]
  IN /\ pc[k] = "installed"
     /\ net' = net \cup {SessionInit(n, p, target[k])}
     /\ End(k)
     /\ UNCHANGED <<tables, history, self, faults>>

\* Mutant of Timeout: the task awaits message B without a deadline.
NoTimeout(k) == FALSE

\* HANDSHAKE_TIMEOUT passes without a message B.
Timeout(k) ==
  /\ pc[k] = "waiting"
  /\ Patient => \A m \in net : m.i # k
  /\ pc' = [pc EXCEPT ![k] = "expired"]
  /\ UNCHANGED <<net, target, reply, tables, history, self, faults>>

\* Mutant of Expire: the pending entry is left behind.
ExpireLeavesPending(k) ==
  /\ pc[k] = "expired"
  /\ End(k)
  /\ UNCHANGED <<net, tables, history, self, faults>>

\* The timed-out task removes what is pending at its address, its own or not.
Expire(k) ==
  /\ pc[k] = "expired"
  /\ End(k)
  /\ pending' = [pending EXCEPT ![k[1]][target[k]] = None]
  /\ UNCHANGED <<net, responders, sessions, addrIndex, greeting,
                 history, self, faults>>

\* The task's sender was removed from pending without being used.
ChannelDropped(k) ==
  /\ pc[k] = "waiting"
  /\ pending[k[1]][target[k]] # k
  /\ End(k)
  /\ UNCHANGED <<net, tables, history, self, faults>>

-----------------------------------------------------------------------------
(* Inbound loop *)

\* The inbound loop of n is idle and reads m.
Reads(n, m) ==
  /\ greeting[n] = None
  /\ Deliverable(m)
  /\ OwnerOf[m.dst] = n

ForInitiator(n, m) == m.type = "B" /\ pending[n][m.src] # None
ForResponder(n, m) == ~ForInitiator(n, m) /\ Retained(n)[m.src] # None
ForSession(n, m) ==
  /\ ~ForInitiator(n, m)
  /\ Retained(n)[m.src] = None
  /\ addrIndex[n][m.src] # None
Unclaimed(n, m) ==
  /\ ~ForInitiator(n, m)
  /\ Retained(n)[m.src] = None
  /\ addrIndex[n][m.src] = None

\* A message B goes to the task that waits for its source, if it still waits.
DispatchB(n, m) ==
  LET k == pending[n][m.src] IN
  /\ Reads(n, m)
  /\ ForInitiator(n, m)
  /\ pending' = [pending EXCEPT ![n][m.src] = None]
  /\ IF pc[k] = "waiting"
       THEN /\ pc' = [pc EXCEPT ![k] = "replied"]
            /\ reply' = [reply EXCEPT ![k] = [i |-> m.i, r |-> m.r]]
       ELSE UNCHANGED <<pc, reply>>
  /\ responders' = [responders EXCEPT ![n] = Retained(n)]
  /\ Exchange(m, {})
  /\ UNCHANGED <<target, sessions, addrIndex, greeting, history, self>>

\* Mutant of Completes: the outcome of reading message C is ignored.
CompletesUnread(m, o) == m.type = "C"

\* Does m complete responder o's handshake?
Completes(m, o) == m.type = "C" /\ m.i = o.i /\ m.r = o.r

\* Mutant of FinishC: a completed responder stays in pending_responders.
FinishKeeps(n, m) ==
  LET o == responders[n][m.src] IN
  /\ Reads(n, m)
  /\ ForResponder(n, m)
  /\ responders' = [responders EXCEPT ![n] = Retained(n)]
  /\ IF Completes(m, o)
       THEN /\ StoreSession(n, o.i[1], o.i, o.r, m.src)
            /\ greeting' = [greeting EXCEPT ![n] =
                             [peer |-> o.i[1], to |-> m.src, indexed |-> FALSE]]
       ELSE UNCHANGED <<sessions, greeting, history>>
  /\ Exchange(m, {})
  /\ UNCHANGED <<tasks, pending, addrIndex, self>>

\* A datagram from an address with a waiting responder is taken for message
\* C, whatever it is; the responder is consumed either way.
FinishC(n, m) ==
  LET o == responders[n][m.src] IN
  /\ Reads(n, m)
  /\ ForResponder(n, m)
  /\ responders' = [responders EXCEPT ![n] = [Retained(n) EXCEPT ![m.src] = None]]
  /\ IF Completes(m, o)
       THEN /\ StoreSession(n, o.i[1], o.i, o.r, m.src)
            /\ greeting' = [greeting EXCEPT ![n] =
                             [peer |-> o.i[1], to |-> m.src, indexed |-> FALSE]]
       ELSE UNCHANGED <<sessions, greeting, history>>
  /\ Exchange(m, {})
  /\ UNCHANGED <<tasks, pending, addrIndex, self>>

\* The inbound loop indexes the session it stored.
IndexBack(n) ==
  /\ greeting[n] # None
  /\ ~greeting[n].indexed
  /\ IndexSession(n, greeting[n].peer, greeting[n].to)
  /\ greeting' = [greeting EXCEPT ![n].indexed = TRUE]
  /\ UNCHANGED <<net, tasks, pending, responders, sessions, history, self, faults>>

\* The responder's SessionInit, after the route was added.
GreetBack(n) ==
  /\ greeting[n] # None
  /\ greeting[n].indexed
  /\ net' = net \cup {SessionInit(n, greeting[n].peer, greeting[n].to)}
  /\ greeting' = [greeting EXCEPT ![n] = None]
  /\ UNCHANGED <<tasks, pending, responders, sessions, addrIndex, history, self, faults>>

\* A datagram from an indexed address is decrypted on that peer's session.
\* A handshake message fails to, after its first bytes moved the window.
Decrypt(n, m) ==
  LET p == addrIndex[n][m.src] IN
  /\ Reads(n, m)
  /\ ForSession(n, m)
  /\ IF sessions[n][p] # None /\ m.type # "D"
       THEN sessions' = [sessions EXCEPT ![n][p].deaf = TRUE]
       ELSE UNCHANGED sessions
  /\ responders' = [responders EXCEPT ![n] = Retained(n)]
  /\ Exchange(m, {})
  /\ UNCHANGED <<tasks, pending, addrIndex, greeting, history, self>>

\* A message A from an unknown address starts a responder with ephemeral e.
AcceptA(n, m, e) ==
  /\ Reads(n, m)
  /\ Unclaimed(n, m)
  /\ m.type = "A"
  /\ e[1] = n
  /\ Free(e)
  /\ responders' = [responders EXCEPT ![n] = [Retained(n) EXCEPT ![m.src] =
                      [i |-> m.i, r |-> e, stale |-> FALSE]]]
  /\ Exchange(m, {Packet("B", m.i, e, n, m.src)})
  /\ installed' = Forget(e)
  /\ UNCHANGED <<tasks, pending, sessions, addrIndex, greeting, reinstalled, self>>

\* Anything else from an unknown address is ignored.
Ignore(n, m) ==
  /\ Reads(n, m)
  /\ Unclaimed(n, m)
  /\ m.type # "A"
  /\ responders' = [responders EXCEPT ![n] = Retained(n)]
  /\ Exchange(m, {})
  /\ UNCHANGED <<tasks, pending, sessions, addrIndex, greeting, history, self>>

\* A waiting responder reaches HANDSHAKE_TIMEOUT.
Stale(n, x) ==
  /\ responders[n][x] # None
  /\ ~responders[n][x].stale
  /\ Patient => /\ \A m \in net : m.i # responders[n][x].i
                /\ pc[responders[n][x].i] # "replied"
  /\ responders' = [responders EXCEPT ![n][x].stale = TRUE]
  /\ UNCHANGED <<net, tasks, pending, sessions, addrIndex, greeting, history, self, faults>>

\* The daemon of n is stopped and started again: only its identity survives.
Restart(n) ==
  /\ faults.restart < MaxRestart
  /\ Patient => net = {}
  /\ faults' = [faults EXCEPT !.restart = @ + 1]
  /\ pc' = [k \in Eph |-> IF k[1] = n THEN "done" ELSE pc[k]]
  /\ target' = [k \in Eph |-> IF k[1] = n THEN None ELSE target[k]]
  /\ reply' = [k \in Eph |-> IF k[1] = n THEN None ELSE reply[k]]
  /\ pending' = [pending EXCEPT ![n] = [x \in Addr |-> None]]
  /\ responders' = [responders EXCEPT ![n] = [x \in Addr |-> None]]
  /\ sessions' = [sessions EXCEPT ![n] = [p \in Node |-> None]]
  /\ addrIndex' = [addrIndex EXCEPT ![n] = [x \in Addr |-> None]]
  /\ greeting' = [greeting EXCEPT ![n] = None]
  /\ stun' = [stun EXCEPT ![n] = None]
  /\ UNCHANGED <<net, history, blind>>

-----------------------------------------------------------------------------
Receive(n, m) ==
  \/ DispatchB(n, m)
  \/ FinishC(n, m)
  \/ Decrypt(n, m)
  \/ \E e \in Eph : AcceptA(n, m, e)
  \/ Ignore(n, m)

Attempt(k) ==
  \/ SendA(k) \/ SendC(k) \/ Install(k) \/ Index(k) \/ Greet(k)
  \/ Timeout(k) \/ Expire(k) \/ ChannelDropped(k)

Next ==
  \/ \E n \in Node, x \in Addr, k \in Eph : Discover(n, x, k)
  \/ \E k \in Eph : Attempt(k)
  \/ \E k \in Eph : SendFails(k)
  \/ \E n \in Node, m \in net : Receive(n, m)
  \/ \E n \in Node : IndexBack(n)
  \/ \E n \in Node : GreetBack(n)
  \/ \E n \in Node : StunAnswers(n)
  \/ \E n \in Node, x \in Addr : Stale(n, x)
  \/ \E m \in net : Lose(m)
  \/ \E n \in Node : Restart(n)

Spec == Init /\ [][Next]_vars
-----------------------------------------------------------------------------
(* Fairness: tokio keeps running every task, timers fire, and a datagram     *)
(* that is not lost arrives.  Every ten seconds the discovery loop dials     *)
(* each address it is told of, whatever else it dials; an attempt is over    *)
(* after two.  Its fairness is strong because, in the model, attempts may be *)
(* under way or hold every ephemeral when a round comes.  Nothing makes STUN *)
(* answer.                                                                   *)
\* Ephemerals of devices that are told of someone.
Dialling == {k \in Eph : Discovers[k[1]] # {}}

Fairness ==
  /\ \A n \in Node : \A x \in Discovers[n] : SF_vars(\E k \in Eph : Discover(n, x, k))
  /\ \A k \in Dialling : WF_vars(Attempt(k))
  /\ \A n \in Node, t \in {"A", "B", "C", "D"} :
       WF_vars(\E m \in net : m.type = t /\ Receive(n, m))
  /\ \A n \in Node : WF_vars(IndexBack(n) \/ GreetBack(n))
  /\ \A n \in Node, x \in Addr : WF_vars(Stale(n, x))

FairSpec == Spec /\ Fairness

-----------------------------------------------------------------------------
(* Invariants *)

Progress ==
  {"done", "spawned", "waiting", "replied", "finished", "stored", "installed", "expired"}

TypeOK ==
  /\ net \subseteq Msg
  /\ pc \in [Eph -> Progress]
  /\ target \in [Eph -> Addr \cup {None}]
  /\ reply \in [Eph -> Key \cup {None}]
  /\ pending \in [Node -> [Addr -> Eph \cup {None}]]
  /\ responders \in [Node -> [Addr -> Offer \cup {None}]]
  /\ sessions \in [Node -> [Node -> Session \cup {None}]]
  /\ addrIndex \in [Node -> [Addr -> Node \cup {None}]]
  /\ greeting \in [Node -> Greeting \cup {None}]
  /\ installed \in [Node -> SUBSET Key]
  /\ reinstalled \subseteq Key
  /\ stun \in [Node -> Addr \cup {None}]
  /\ blind \subseteq Eph
  /\ faults \in [loss : Nat, dup : Nat, restart : Nat]

\* An entry of pending belongs to a task that still waits at that address and
\* will take it away; an orphan would stop the address from ever being dialled
\* again (handshake.rs:61-73, 221-224, inbound.rs:88-97, discovery.rs:82-84).
PendingIsOwned ==
  \A n \in Node, x \in Addr :
    LET k == pending[n][x] IN
    k # None => k[1] = n /\ target[k] = x /\ pc[k] \in {"waiting", "expired"}

\* No handshake gives a node its transport twice: a second copy would start
\* again at nonce 0 under the same key (noise.rs:144-149, inbound.rs:100).
TransportIsFresh == reinstalled = {}

\* Two sessions that grew from the same attempt are the two ends of the same
\* handshake, and each sits under the identity of the opposite end, even when
\* a repeated message A gave the attempt two responders (inbound.rs:100-127,
\* 334-351; handshake.rs:82-117).
EndsMatch ==
  \A n, p \in Node :
    LET s == sessions[n][p] IN
    s # None =>
      /\ <<n, p>> \in {<<s.i[1], s.r[1]>>, <<s.r[1], s.i[1]>>}
      /\ \A m, q \in Node :
           sessions[m][q] # None /\ sessions[m][q].i = s.i => sessions[m][q].r = s.r

(* The inductive invariant behind the three above. *)

\* Where a task is once it has completed its handshake.
Past == {"finished", "stored", "installed"}

\* What a task has when it gets there.
TaskData ==
  \A k \in Eph :
    /\ pc[k] # "done" => target[k] \in Addr
    /\ pc[k] \in {"replied"} \cup Past => reply[k] \in Key
    /\ pc[k] \in Past => reply[k].i = k /\ reply[k].r[1] # k[1]
    /\ pc[k] \in {"stored", "installed"} => sessions[k[1]][reply[k].r[1]] # None

\* The inbound loop greets only peers it has a session with.
GreetingHasSession ==
  \A n \in Node : greeting[n] # None => sessions[n][greeting[n].peer] # None

\* Only a message A lacks a responder.
MessagesNameResponder == \A m \in net : m.type # "A" => m.r \in Eph

\* A live responder is n's own, has an ephemeral to itself, and has not
\* produced a transport yet.
RespondersAreFresh ==
  \A n \in Node, x \in Addr :
    LET o == Retained(n)[x] IN
    o # None =>
      /\ o.r[1] = n
      /\ \A y \in Addr \ {x} : Retained(n)[y] # None => Retained(n)[y].r # o.r
      /\ \A key \in installed[n] : key.r # o.r

\* Nor has an attempt that is still on its way to Install.
AttemptsAreFresh ==
  \A k \in Eph :
    pc[k] \in {"spawned", "waiting", "replied", "expired", "finished"} =>
      \A key \in installed[k[1]] : key.i # k

\* The handshakes an initiator has completed, as far as anything shows them.
Committed ==
  {[i |-> m.i, r |-> m.r] : m \in {o \in net : o.type = "C"}}
    \cup {reply[k] : k \in {j \in Eph : pc[j] \in Past}}
    \cup {[i |-> s.i, r |-> s.r] :
            s \in {sessions[n][p] : n \in Node, p \in Node} \ {None}}

\* An attempt completes with one responder only, and is past doing it again.
CommitsAreUnique ==
  \A key \in Committed :
    /\ pc[key.i] \in Past \cup {"done"}
    /\ \A other \in Committed : other.i = key.i => other.r = key.r

\* A session sits under the identity of the other end of its handshake.
SessionsAreKeyed ==
  \A n, p \in Node :
    sessions[n][p] # None =>
      \/ sessions[n][p].i[1] = n /\ sessions[n][p].r[1] = p
      \/ sessions[n][p].i[1] = p /\ sessions[n][p].r[1] = n

HandshakeInv ==
  /\ TypeOK
  /\ TaskData
  /\ GreetingHasSession
  /\ MessagesNameResponder
  /\ PendingIsOwned
  /\ RespondersAreFresh
  /\ AttemptsAreFresh
  /\ CommitsAreUnique
  /\ SessionsAreKeyed
  /\ TransportIsFresh

\* n has stored a session with p made at x, and not indexed x yet.
BetweenInserts(n, p, x) ==
  \/ \E k \in Eph : /\ k[1] = n
                    /\ pc[k] = "stored"
                    /\ reply[k].r[1] = p
                    /\ target[k] = x
  \/ greeting[n] = [peer |-> p, to |-> x, indexed |-> FALSE]

\* Whatever tasks and inbound loop do between each other's two inserts, data
\* from the address a session was made with is decrypted on that session, save
\* while whoever stored the session is about to index the address; and the
\* index never leads to a peer there is no session with, so nothing has to be
\* taken out of it (inbound.rs:121-128, 198; handshake.rs:111-118;
\* discovery.rs:74-89).
UnderlayIsIndexed ==
  /\ \A n, p \in Node, x \in Addr :
       sessions[n][p] # None /\ sessions[n][p].underlay = x =>
         addrIndex[n][x] = p \/ BetweenInserts(n, p, x)
  /\ \A n \in Node, x \in Addr :
       addrIndex[n][x] # None => sessions[n][addrIndex[n][x]] # None

\* A node may get a session with itself, but only by an attempt it spawned
\* before STUN had answered: however late that handshake is completed, and
\* whatever is repeated, no later attempt leads to one (discovery.rs:69-73,
\* inbound.rs:100-127, handshake.rs:103-105, lib.rs:200-236).
SelfSessionIsBlind ==
  \A n \in Node : sessions[n][n] # None => sessions[n][n].i \in blind

(* The inductive invariants behind these two, and what the network has to be *)
(* like for them.                                                            *)

\* No two devices appear from the same address.
SourcesDiffer ==
  \A n, p \in Node : \A x, y \in Addr : Source[n][x] = Source[p][y] => n = p

\* p's datagrams may arrive from x.
AppearsAt(p, x) == \E y \in Addr : Source[p][y] = x

\* Whatever is known of a peer is filed under an address it appears at.
AddressesAreTrue ==
  /\ \A m \in net :
       /\ m.type \in {"A", "C"} => AppearsAt(m.i[1], m.src)
       /\ m.type = "B" => AppearsAt(m.r[1], m.src)
  /\ \A k \in Eph : reply[k] # None => AppearsAt(reply[k].r[1], target[k])
  /\ \A n \in Node, x \in Addr :
       responders[n][x] # None => AppearsAt(responders[n][x].i[1], x)
  /\ \A n \in Node : greeting[n] # None => AppearsAt(greeting[n].peer, greeting[n].to)
  /\ \A n, p \in Node :
       sessions[n][p] # None => AppearsAt(p, sessions[n][p].underlay)

AddressInv == AddressesAreTrue /\ UnderlayIsIndexed

\* An address of n's own that n is told of is the one STUN finds, if it finds
\* any.
OwnAddressesFound ==
  \A n \in Node : \A x \in Discovers[n] : OwnerOf[x] = n => StunFinds[n] \subseteq {x}

\* Only blind attempts lead a node to itself.
OnlyBlindMeetSelf ==
  /\ \A n \in Node : stun[n] # None => stun[n] \in StunFinds[n]
  /\ \A k \in Eph : target[k] # None /\ OwnerOf[target[k]] = k[1] => k \in blind
  /\ \A m \in net : m.type = "A" /\ OwnerOf[m.dst] = m.i[1] => m.i \in blind
  /\ \A n \in Node, x \in Addr :
       Retained(n)[x] # None /\ Retained(n)[x].i[1] = n => Retained(n)[x].i \in blind
  /\ SelfSessionIsBlind

-----------------------------------------------------------------------------
(* Properties of runs *)

\* n can read what p sends, and the other way round.
Linked(n, p) ==
  LET s == sessions[n][p]
      t == sessions[p][n]
  IN /\ s # None /\ t # None
     /\ s.i = t.i /\ s.r = t.r
     /\ ~s.deaf /\ ~t.deaf

\* Every device of the network gets a session with every other it can
\* discover, and keeps it (README.md:9-10).
EveryoneJoins ==
  \A n \in Node : \A x \in Discovers[n] :
    OwnerOf[x] # n => <>[]Linked(n, OwnerOf[x])

\* Devices that had a session with each other have one again for good after a
\* daemon was stopped and started (README.md:9-10).
LinksComeBack ==
  \A n \in Node : \A x \in Discovers[n] :
    OwnerOf[x] # n => [](Linked(n, OwnerOf[x]) => <>[]Linked(n, OwnerOf[x]))

\* An attempt to dial an address ends, whatever is lost.
AttemptsEnd == \A k \in Dialling : pc[k] # "done" ~> pc[k] = "done"
=============================================================================
