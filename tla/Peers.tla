------------------------------- MODULE Peers --------------------------------
(***************************************************************************)
(* peer/src/{manager,peer,state}.rs and core/src/peers_snapshot.rs: the    *)
(* peer table of one device, the events it sends, and the task that writes *)
(* the list of connected peers to peers.json.                              *)
(*                                                                         *)
(* Several tasks of the engine register peers at the same time: each       *)
(* initiator task at the end of its handshake, and the inbound loop for    *)
(* the responder side, relay confirmations and peer directories.  They     *)
(* share the table without a lock around a whole registration, and a Peer  *)
(* is a handle: a clone taken from the table stays the same object after   *)
(* the table entry was replaced.                                           *)
(*                                                                         *)
(* Nothing in the engine calls PeerManager::remove, assign_overlay or any  *)
(* transition other than the three of a registration.                      *)
(***************************************************************************)
EXTENDS Naturals, Sequences, FiniteSets

CONSTANTS
  Peer,
  Actor,      \* tasks that register peers
  Work,       \* Work[a]: the jobs of a, in any order
  EVENT_CHANNEL_CAPACITY,  \* 256 in the code
  None

\* To register a peer as connected, or to note one that a directory names.
Job == [peer : Peer, goal : {"connected", "named"}]

ASSUME PeersAssumption ==
  /\ Work \in [Actor -> SUBSET Job]
  /\ EVENT_CHANNEL_CAPACITY \in Nat \ {0}
  /\ None \notin Job

PeerState ==
  {"Disconnected", "Discovering", "Connecting", "Handshaking", "Connected", "Dead"}

Allowed ==
  { <<"Disconnected", "Discovering">>,
    <<"Discovering", "Connecting">>,   <<"Discovering", "Disconnected">>,
    <<"Connecting", "Handshaking">>,   <<"Connecting", "Disconnected">>,
    <<"Handshaking", "Connected">>,    <<"Handshaking", "Disconnected">>,
    <<"Connected", "Disconnected">>,   <<"Connected", "Dead">>,
    <<"Dead", "Disconnected">> }

\* Mutant of CanTransition: a handshake never makes a peer Connected.
NeverConnects(from, to) == to # "Connected" /\ <<from, to>> \in Allowed

\* PeerState::can_transition_to
CanTransition(from, to) == <<from, to>> \in Allowed

VARIABLES
  objects,     \* the state of every Peer made so far
  table,       \* table[p]: the object the table has for p, 0 if none
  todo,        \* todo[a]: jobs of a not yet begun
  job,         \* job[a]: what a is doing
  at,          \* at[a]: where in discover or transition_peer a is
  held,        \* held[a]: the object a has a handle of
  next,        \* next[a]: the state a asks for
  events,      \* what the snapshot task has not yet received: <<peer, state>>
  lagged,      \* the oldest events were overwritten
  loop,        \* where the snapshot task is
  scan,        \* peers it has still to look at
  found,       \* peers it saw connected in this scan
  listed,      \* peers in peers.json
  unheard      \* history: peers whose Connected event nobody received, and no
               \* other one since

actors == <<todo, job, at, held, next>>
snapshot == <<loop, scan, found, listed>>
vars == <<objects, table, actors, events, lagged, snapshot, unheard>>

Init ==
  /\ objects = <<>>
  /\ table = [p \in Peer |-> 0]
  /\ todo = Work
  /\ job = [a \in Actor |-> None]
  /\ at = [a \in Actor |-> "idle"]
  /\ held = [a \in Actor |-> 0]
  /\ next = [a \in Actor |-> "Connecting"]
  /\ events = <<>> /\ lagged = FALSE
  /\ loop = "off" /\ scan = {} /\ found = {} /\ listed = {}
  /\ unheard = {}

-----------------------------------------------------------------------------
(* Events *)

\* Peers whose Connected event is among E.
ConnectedIn(E) == {e[1] : e \in {f \in E : f[2] = "Connected"}}

\* broadcast::Sender::send: without a receiver the event is gone, a full
\* channel loses its oldest.
Send(p, e) ==
  LET full == Len(events) >= EVENT_CHANNEL_CAPACITY
      lost == IF loop = "off" THEN {<<p, e>>} ELSE IF full THEN {Head(events)} ELSE {}
  IN /\ events' = IF loop = "off" THEN events
                  ELSE Append(IF full THEN Tail(events) ELSE events, <<p, e>>)
     /\ lagged' = (lagged \/ (loop # "off" /\ full))
     /\ unheard' = unheard \cup ConnectedIn(lost)

NoEvent == UNCHANGED <<events, lagged, unheard>>

-----------------------------------------------------------------------------
(* discover *)

\* What a does once it has a table entry for the peer of job j.
Discovered(a, j) ==
  /\ next' = [next EXCEPT ![a] = "Connecting"]
  /\ job' = [job EXCEPT ![a] = IF j.goal = "connected" THEN j ELSE None]
  /\ at' = [at EXCEPT ![a] = IF j.goal = "connected" THEN "fetch" ELSE "idle"]

\* A known peer only gets the new address.
FindPeer(a, j) ==
  /\ at[a] = "idle" /\ j \in todo[a] /\ table[j.peer] # 0
  /\ todo' = [todo EXCEPT ![a] = @ \ {j}]
  /\ Discovered(a, j)
  /\ UNCHANGED <<objects, table, held, snapshot>> /\ NoEvent

\* For an unknown one a Peer is made and moved to Discovering.
NewPeer(a, j) ==
  /\ at[a] = "idle" /\ j \in todo[a] /\ table[j.peer] = 0
  /\ todo' = [todo EXCEPT ![a] = @ \ {j}]
  /\ objects' = Append(objects, "Discovering")
  /\ held' = [held EXCEPT ![a] = Len(objects) + 1]
  /\ job' = [job EXCEPT ![a] = j]
  /\ at' = [at EXCEPT ![a] = "insert"]
  /\ UNCHANGED <<table, next, snapshot>> /\ NoEvent

\* It enters the table, in place of what another task has put there since.
InsertPeer(a) ==
  /\ at[a] = "insert"
  /\ table' = [table EXCEPT ![job[a].peer] = held[a]]
  /\ Discovered(a, job[a])
  /\ Send(job[a].peer, "Discovering")
  /\ UNCHANGED <<objects, todo, held, snapshot>>

-----------------------------------------------------------------------------
(* transition_peer, to Connecting, Handshaking and Connected in turn *)

\* A transition that fails is not noticed: a goes on to the next one.
Proceed(a) ==
  IF next[a] = "Connected"
    THEN /\ job' = [job EXCEPT ![a] = None]
         /\ at' = [at EXCEPT ![a] = "idle"]
         /\ UNCHANGED next
    ELSE /\ next' = [next EXCEPT ![a] =
                       IF @ = "Connecting" THEN "Handshaking" ELSE "Connected"]
         /\ at' = [at EXCEPT ![a] = "fetch"]
         /\ UNCHANGED job

\* a takes a handle from the table.
Fetch(a) ==
  /\ at[a] = "fetch"
  /\ held' = [held EXCEPT ![a] = table[job[a].peer]]
  /\ at' = [at EXCEPT ![a] = "change"]
  /\ UNCHANGED <<objects, table, todo, job, next, snapshot>> /\ NoEvent

\* The peer's own lock is held while its state changes.
Change(a) ==
  /\ at[a] = "change" /\ CanTransition(objects[held[a]], next[a])
  /\ objects' = [objects EXCEPT ![held[a]] = next[a]]
  /\ at' = [at EXCEPT ![a] = "emit"]
  /\ UNCHANGED <<table, todo, job, held, next, snapshot>> /\ NoEvent

Reject(a) ==
  /\ at[a] = "change" /\ ~CanTransition(objects[held[a]], next[a])
  /\ Proceed(a)
  /\ UNCHANGED <<objects, table, todo, held, snapshot>> /\ NoEvent

Emit(a) ==
  /\ at[a] = "emit"
  /\ Proceed(a)
  /\ Send(job[a].peer, next[a])
  /\ UNCHANGED <<objects, table, todo, held, snapshot>>

-----------------------------------------------------------------------------
(* The snapshot task *)

\* The engine subscribes after it has spawned the loops that register peers.
Subscribe ==
  /\ loop = "off"
  /\ loop' = "start"
  /\ UNCHANGED <<objects, table, actors, events, lagged, scan, found, listed, unheard>>

\* An empty list comes first.
WriteEmpty ==
  /\ loop = "start"
  /\ loop' = "wait"
  /\ listed' = {}
  /\ UNCHANGED <<objects, table, actors, scan, found>> /\ NoEvent

\* Mutant of Rebuilds: a list is written one transition too early.
RebuildsEarly(e) == e = "Handshaking"

\* The event after which a list is written.
Rebuilds(e) == e = "Connected"

Recv ==
  /\ loop = "wait" /\ ~lagged /\ events # <<>>
  /\ events' = Tail(events)
  /\ IF Rebuilds(Head(events)[2])
       THEN loop' = "scan" /\ scan' = Peer /\ found' = {}
       ELSE UNCHANGED <<loop, scan, found>>
  /\ unheard' = IF Head(events)[2] = "Connected" THEN {} ELSE unheard
  /\ UNCHANGED <<objects, table, actors, lagged, listed>>

\* The receiver is told that events were lost, and goes on with the others.
RecvLagged ==
  /\ loop = "wait" /\ lagged
  /\ lagged' = FALSE
  /\ UNCHANGED <<objects, table, actors, events, snapshot, unheard>>

\* connected_peers looks at one peer after the other.
Look(p) ==
  /\ loop = "scan" /\ p \in scan
  /\ scan' = scan \ {p}
  /\ found' = IF table[p] # 0 /\ objects[table[p]] = "Connected"
                THEN found \cup {p} ELSE found
  /\ UNCHANGED <<objects, table, actors, loop, listed>> /\ NoEvent

WriteList ==
  /\ loop = "scan" /\ scan = {}
  /\ loop' = "wait"
  /\ listed' = found
  /\ UNCHANGED <<objects, table, actors, scan, found>> /\ NoEvent

-----------------------------------------------------------------------------
Register(a) ==
  \/ \E j \in todo[a] : FindPeer(a, j) \/ NewPeer(a, j)
  \/ InsertPeer(a) \/ Fetch(a) \/ Change(a) \/ Reject(a) \/ Emit(a)

Snapshot ==
  \/ Subscribe \/ WriteEmpty \/ Recv \/ RecvLagged \/ WriteList
  \/ \E p \in Peer : Look(p)

Next == (\E a \in Actor : Register(a)) \/ Snapshot

Spec == Init /\ [][Next]_vars

\* The tasks keep running: their awaits are on locks that are soon released.
FairSpec ==
  Spec /\ WF_vars(Snapshot) /\ \A a \in Actor : WF_vars(Register(a))

-----------------------------------------------------------------------------
(* Invariants *)

\* The states a registration goes through, and their order.
Stage == {"Discovering", "Connecting", "Handshaking", "Connected"}

Rank(q) == CASE q = "Discovering" -> 1 [] q = "Connecting" -> 2
             [] q = "Handshaking" -> 3 [] q = "Connected" -> 4

TypeOK ==
  /\ objects \in Seq(Stage)
  /\ table \in [Peer -> 0 .. Len(objects)]
  /\ todo \in [Actor -> SUBSET Job]
  /\ job \in [Actor -> Job \cup {None}]
  /\ at \in [Actor -> {"idle", "insert", "fetch", "change", "emit"}]
  /\ held \in [Actor -> 0 .. Len(objects)]
  /\ next \in [Actor -> Stage \ {"Discovering"}]
  /\ events \in Seq(Peer \X Stage) /\ lagged \in BOOLEAN
  /\ loop \in {"off", "start", "wait", "scan"}
  /\ scan \subseteq Peer /\ found \subseteq Peer /\ listed \subseteq Peer
  /\ unheard \subseteq Peer

\* Peers that some directory names, whether or not they are registered too.
Named == {p \in Peer : \E a \in Actor : [peer |-> p, goal |-> "named"] \in Work[a]}

\* Jobs begun are jobs given, an actor is idle when it has none, and the last
\* steps of a job are only for connected peers.
JobsAreGiven ==
  \A a \in Actor :
    /\ todo[a] \subseteq Work[a]
    /\ at[a] = "idle" <=> job[a] = None
    /\ at[a] # "idle" => job[a] \in Work[a]
    /\ at[a] \in {"fetch", "change", "emit"} =>
         job[a].goal = "connected" /\ table[job[a].peer] # 0
    /\ at[a] \in {"change", "emit"} => held[a] # 0

\* An object that is not in the table yet is known to its maker only.
NewIsPrivate ==
  \A a \in Actor : at[a] = "insert" =>
    /\ held[a] # 0 /\ objects[held[a]] = "Discovering"
    /\ \A p \in Peer : table[p] # held[a]
    /\ \A b \in Actor \ {a} : held[b] # held[a]

\* a will take the peer in the table to Connected.
Drives(a, p) ==
  /\ at[a] \in {"fetch", "change", "emit"}
  /\ job[a].peer = p
  /\ at[a] = "change" => held[a] = table[p]
  /\ Rank(next[a]) <= Rank(objects[table[p]]) + (IF at[a] = "emit" THEN 0 ELSE 1)

\* Whatever the races, somebody drives each peer that is not connected yet.
EachIsDriven ==
  \A p \in Peer \ Named : table[p] # 0 =>
    objects[table[p]] = "Connected" \/ \E a \in Actor : Drives(a, p)

\* The inductive invariant behind RegisteredIsConnected.
PeersInv == TypeOK /\ JobsAreGiven /\ NewIsPrivate /\ EachIsDriven

\* Tasks may register one peer at the same time, replace each other's entry
\* and have transitions refused, yet once none of them is at it the peer is
\* Connected (manager.rs:106-135 with handshake.rs:202-215, inbound.rs:168-181,
\* 294-307).  A directory that names the same peer at that moment can undo it.
RegisteredIsConnected ==
  \A p \in Peer \ Named :
    /\ table[p] # 0
    /\ \A a \in Actor : job[a] = None \/ job[a].peer # p
    => objects[table[p]] = "Connected"

\* What the table says of a peer only ever changes along the diagram of the
\* lifecycle, Connected being left for Disconnected or Dead alone
\* (state.rs:5-14).
LifecycleFollowed ==
  [][\A p \in Peer : table[p] # 0 =>
       LET from == objects[table[p]]
           to == objects'[table'[p]]
       IN from = to \/ <<from, to>> \in Allowed]_vars

\* A peer that is registered is in peers.json in the end and stays there
\* (docs/en/guide/cli.md:46, docs/en/guide/tui.md:42).
Registered == {p \in Peer : \E a \in Actor : [peer |-> p, goal |-> "connected"] \in Work[a]}

EveryoneIsListed == <>[](Registered \ Named \subseteq listed)

\* The one thing that can keep it out is that its Connected event was sent
\* before the engine subscribed, or overwritten, and that no other peer's was
\* received since: neither the scan, which is not atomic, nor entries that are
\* replaced, nor the loss of other events do (manager.rs:3-6,
\* peers_snapshot.rs:28-52).
ListedUnlessUnheard == <>[](Registered \ Named \subseteq listed \cup unheard)
=============================================================================
