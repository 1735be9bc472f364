# SeedNet in TLA+

SeedNet (`src/`, Rust) is a peer-to-peer overlay network. Devices that share a
seed phrase find each other through the DHT and trackers, shake hands with
Noise XX over UDP, carry IP packets between their TUN devices, and relay for
each other where no direct connection is possible. This directory holds TLA+
models of the parts whose behaviour depends on order, loss, timing and
concurrency, TLC configurations that check them, and TLAPS proofs about them.
Source locations are given as `file.rs:line`, below `src/crates/`.

    tlc -workers 2 -config HandshakeSafety.cfg MCHandshake.tla
    tlapm HandshakeProofs.tla

`PROJECT.json` lists components, runs, mutants (a plausible bug of the code for
each property, which the run finds), the source lines of every definition,
hazards, findings and theorems.

## 1. The system

One process, the daemon, runs one engine (`core`). Everything in it is a tokio
task on a multi-threaded runtime (`cli/main.rs:178`); the tasks share concurrent
maps and have no lock around more than one of them.

| Component | State | Operations | What is hard about it | What makes it correct |
|---|---|---|---|---|
| Secure transport (`crypto/noise.rs:20-110, 280-340`) | send counter, `NonceWindow` (highest nonce, 128-bit bitmap) | `encrypt`, `decrypt`, `check_and_insert` | reordering, repeats, strangers' datagrams; shifts at the edge of the bitmap | no datagram is accepted twice, save at the edge of the bitmap; a late one is not refused |
| Discovery and handshake (`core/discovery.rs`, `handshake.rs:1-225`, `inbound.rs:40-200, 334-380`) | `pending` and responder maps by address, `sessions`, `addr_index` | `discover`, `do_initiator_handshake`, timeout, dispatch of A, B, C, data | crossing handshakes, repeats, timeouts racing answers, restarts, two maps filled one after the other, STUN that answers late or never | each attempt ends; both ends have the same keys; keys are installed once; everyone connects |
| Relaying (`core/inbound.rs:200-743`, `outbound.rs`, `lib.rs:209-474`) | `relay_paths`, `routing_table`, `relay_candidates`, `can_relay_flag` | SessionInit, RelayAnnounce, PeerDirectory, RelayRequest, RelayReady, RelayData, TUN packets, STUN | messages over several hops in any order; four maps updated one after the other | everyone reaches everyone; paths lead through neighbours; data arrives at its destination |
| Peer table and peers.json (`peer/manager.rs`, `state.rs`, `peer.rs`, `core/peers_snapshot.rs`) | `DashMap` of `Peer` handles, broadcast channel, a file | `discover`, `transition_peer`, `run_peers_file_loop` | check-then-insert, handles that outlive their entry, events lost on overflow | who registered is Connected, who is Connected is listed |
| Session map and its users (`core/lib.rs:494-622` and all users of `sessions`) | shard locks, worker threads | heartbeat, health check, periodic broadcast, `get_mut` everywhere | guards kept over `.await`, threads blocked on locks | nobody waits for ever while a worker is left |
| Daemon control (`cli/commands.rs`, `cli/tui.rs`, `core/engine.rs`) | processes, the command in the terminal, the interface | `up`, `_daemon`, `down`, `identity`, the interface's start, stop and poll | two starters, signals that are refused, stale PID files, deadlines, kills, a file removed by whoever did not write it | in orderly use one engine at most, the PID file names it, `down` leaves none |
| State directory (`config`) | identity.json, seednet.pid, peers.json, their temporary files | `atomic_write`, load, clear | a kill between two system calls, two writers of one temporary file | a file is old or new, the identity in use is the saved one |
| Stream transports (`transport`) | connection maps, stream locks, writer queues, channels | `send_to`, accept, read and write loops, `recv_from` | several senders, both ends dialling, failed connections, full channels, locks over I/O | each way of a connection is an ordered stream; no map stays locked |
| Rendezvous (`core/lib.rs:76-316, 476-491, 624-650`, `nat/stun.rs`, `dht`, `tracker`, `core/net.rs`) | bound port, public address, relay flag, announcements, the DHT's entry | bind, STUN query and refresh, announce, lookup, tracker query | two readers of one socket, two announcing tasks, NATs that move, late answers | the DHT leads to a device that knows its address, devices find each other |
| Message channel (`peer/channel.rs`, `session.rs`, `frame.rs`) | transport per address, activity clock | handshakes, send, `prune_expired`, `heartbeat_needed` | – | not used by the engine |
| Routing and overlay tables (`routing`, `overlay`) | two maps each way | `add_route`, `remove_*`, `allocate` | both maps agree; `u8` slots | each address one peer; only `add_route` and lookup are used |
| TUN, rendering, logs | platform I/O | – | – | – |

How they interact. Discovery hands addresses to initiator tasks; these and the
inbound loop fill `sessions`, `addr_index` and the routing table and register
the peer with the peer manager. Manager events wake the snapshot task, which
writes peers.json; the `peers` command and the terminal interface read it. The outbound loop
looks packets up in routes, sessions and relay paths. Timed tasks (heartbeat,
health check, directory broadcast, STUN, announce) walk the same maps. All of
them send through one transport. The daemon, the commands and the interface
are separate processes that share the state directory and signals.

## 2. Modules

| Module | Models | Extended or used by |
|---|---|---|
| `ReplayFilter` | abstract: a filter that remembers every nonce | `NonceWindow` (refinement) |
| `NonceWindow` | sender counter and receiving bitmap of one direction | `NonceWindowProofs` |
| `Handshake` | discovery, initiator tasks, inbound dispatch, timeouts, restarts | `MCHandshake`, `HandshakeProofs` |
| `Relay` | tables and messages of relaying, on top of handshakes that succeed | `MCRelay`, `RelayProofs` |
| `Peers` | registrations by several tasks, events, peers.json | `MCPeers`, `PeersProofs` |
| `SessionLocks` | shard locks, guards over sends, worker threads | `MCSessionLocks`, `SessionLocksProofs` |
| `StateFiles` | abstract: files that are replaced at once or not at all | `Daemon` (refinement) |
| `StateDir` | the state directory in system calls: open, write, rename, remove | `Daemon` |
| `Daemon` | daemons, commands, interface over one `StateDir` | `MCDaemon`, `DaemonProofs` |
| `OrderedStreams` | abstract: ordered channels into the transports of a device and from there into its inbox, cut when a connection fails | `Streams` (refinement) |
| `Streams` | TCP and WebSocket transports, MultiTransport, senders, inbound loops | `MCStreams`, `StreamsProofs` |
| `Rendezvous` | start, STUN, announcements, trackers, discovery on one socket | `MCRendezvous`, `RendezvousProofs` |

The modules cut the system along its shared state. `Handshake` keeps of a replay
window only whether a foreign datagram has pushed it out of its peer's reach
(`deaf`); what that means is in `NonceWindow`. `Relay` begins where a handshake
has sent message C. `Peers` begins where a task registers its peer. `SessionLocks`
looks at the same tasks again, but only at what they lock. `Rendezvous` is what
happens before: how the addresses come about that `Handshake` dials. `Streams`
is what carries messages where a connection is used; `Handshake` and `Relay` have
links of their own, UDP's. `Daemon` extends `StateDir`: every file a process
writes goes through the steps there.

### NonceWindow

`send_nonce`, `top` and `mask` are the fields of the code; bit `d - 1` of the
`u128` is `d \in mask`. An action is one call: `Encrypt`; `DecryptGenuine` of a nonce
already sent; `DecryptStray` with a datagram of someone else, which the code records
before it finds that it does not authenticate (`noise.rs:317`). `seen` and
`deliveries` are history. The counter is bounded by `MaxNonce`.

### Handshake

A handshake is a pair of ephemerals, the initiator's attempt and the
responder's. `pc[k]` is where the initiator task of attempt `k` is; `pending`,
`responders`, `sessions` and `addrIndex` are the maps; `greeting` is the inbound
loop between storing a session and sending its SessionInit. A session is stored
and its address indexed in two steps, of the initiator task (`Install`, `Index`) and
of the loop (`FinishC`, `IndexBack`): the two maps have no common lock, and every
other task may run in between. `stun` is what the discovery loop compares addresses
with: nothing until `StunAnswers`, which may never happen and happens anew after a
restart; `blind` is the history of attempts spawned before it. The network is a
set; each configuration says whether it loses, repeats and reorders. Dispatch is
by source address alone, as in the code (`inbound.rs:100, 198, 334`): a session
for the address takes a datagram whatever it is. `Slot` bounds attempts alive
at once; an ephemeral nobody refers to is drawn again, so retries are unbounded
and the state space is finite. Hole-punch probes (`inbound.rs:57-85`) are answered
and change no map; they are left out.

### Relay

`net` is a queue per directed link. Per node: `sessions`, `joining` (its half
of a handshake, from C to registration), `accepting` (the inbound loop finishing
a responder), `paths` (`relay_paths`), `routes`, `candidates`, `known` (peers
whose public address is in the registry), `missed` (the outbound loop between
finding no way and dropping the route). Every message handler is one action
except where the code gives other tasks a chance to change what it has read.
Hop counts saturate at 255 as `u8` does here. `used.selfish` is history: an outbound
loop has asked the peer it missed for a path to that very peer.

### Peers

A `Peer` is a handle to shared state, so `objects` are numbered and `table` says
which of them the map has. `discover` is look and insert, `transition_peer` is
fetch, change and emit, each a step of its own, because the map is free in
between. `events` is the broadcast channel, which has every transition as peer
and state and overwrites the oldest when it is full; the snapshot task looks at one
peer per step. `unheard` is history: registered peers whose Connected event was sent
to nobody or overwritten, with no other one received since.

### SessionLocks

A round of a task is a sequence of lock, entry, send; `readers` and `writers`
are the guards of each shard, `running` the tasks that occupy a worker. A task
that waits for a shard keeps its worker, since the lock blocks the thread; a
task whose send is pending (`Suspend`) gives it back and keeps its guards. An
iterator takes the next shard before it gives up the last. These are DashMap's
and tokio's rules, modelled from how the engine uses them, not from their source.

### StateDir and Daemon

`disk[f]` and `tmp[f]` are the inodes a file and its temporary name lead to,
`writing[w]` the write thread `w` is in the middle of: `OpenTmp` creates or
truncates, `FillTmp` writes, `RenameTmp` renames, `GiveUp` is an error on the way.
Because both names are by inode, a writer that goes on after another has
renamed the file it writes to is modelled as it happens. Damaged
files of the initial state are what a power failure left (nothing is synced).

`pc[p]` is the program counter of daemon `p` from `_daemon`'s first line to its
cleanup; `cli` is the one command in the terminal; `tui` is the interface with
its child, the PID it believes in and the peers it shows. A process that has
ended is a zombie until its parent has waited for it, which is what `kill(pid, 0)`
sees. `Crash` is SIGKILL from outside, `CliKilled` is ctrl-c on a command. Looking
for an identity, opening the temporary file, and renaming it are a step each, as are
clearing the PID file and spawning; opening the log or the spawn may fail.
Any command may be given in the middle of anything. `used.orderly` is history: it
turns false for good when a command is given while another start or stop is under
way, or when a signal of the interface is refused (`Foreign`: `up` ran as root and
the interface does not, `tui.rs:205`). `Patient` excludes the first of the two, where
a run is about a user with one terminal.

### Streams

One action per stretch between two awaits of `send_to`, the accept loops and the
read loops. A tokio mutex is the queue of those who hold or want it. A frame is a
header and a body, which may go out in two writes; a mutex that is not held for
both would break `FramesAreWhole`, and a reader that meets half a frame would give up
a working connection (`EndedHasFailed`). The refinement maps what a reader has in hand,
what is on the wire and what a WebSocket writer still has queued to one sequence per
way of a connection; the channel of a transport and the common one of
`MultiTransport` stay what they are.

### Rendezvous

An address is a host and a port; a NAT gives the socket another port and may
change it. `socket[n]` is what has arrived and not been received: the STUN query
and the inbound loop both take from it. `query` is the STUN task, `announce` the
port each announcing task has read and not yet delivered, `registered` the DHT's
entry. `first` tells the query at the start, which stores first the flag and then the
address and falls back on `local_public_ip` (routable addresses only), from the
refresh, which stores only what has changed, the address first, and keeps the address
locked until the flag is stored. Whoever reads the address waits (`Readable`); whoever
reads the flag does not. A server need not answer, and from hosts in `Filtered` none does.

## 3. Runs

| Run | Instance | Shows |
|---|---|---|
| `replay_window` | bitmap of 3 places, nonces to 6, stray nonces | bitmap and history agree; late datagrams pass; repeats inside the window do not; the bitmap implements the filter |
| `handshake_safety` | 2 devices dial each other; reordering, one repeat, one restart, timeouts at any moment, the two inserts interleaved with everything | the invariant; pending entries are owned; no transport is installed twice; ends match; every session is found by the address it was made with, save between the two inserts |
| `handshake_one_sided` | one device is told of the other and of its own address, which STUN finds at any moment or never; A or B lost once | a session with itself, which the run reaches, comes only from an attempt made before STUN answered; every attempt ends; retries connect the two for good |
| `handshake_mutual` (violated) | both know each other, no fault | the crossing handshakes leave each end with a session the other cannot read |
| `relay_chain` | `a`-`r`-`s`-`b`; `a` dials from nothing, `r`, `s`, `b` were there first; one attempt times out | everyone ends with a way to everyone over two relays, and keeps it |
| `relay_links` | two scenes of 3 nodes, messages in any order among links, one packet: `a` dials `b` while their relay's messages are under way, one loss; or `a` and `r` are connected, both dial `b`, and `r` and `b` can relay | next hops are neighbours, routes lead somewhere, data comes out at its destination; a path or route to oneself exists only after somebody asked `b` for a path to `b`, which the second scene reaches |
| `peers` | an initiator and the inbound loop register the same peer, another, and one a directory names; channel of 1 | registered peers end Connected; they are listed unless their event was lost and no later one came |
| `locks` | 3 peers in 2 shards, heartbeat, broadcast, outbound loop, handshake, 2 workers, 2 rounds each; not a relay | guards are accounted for; shards are taken in order; every round ends unless all workers are blocked by a holder that needs one, which the run reaches |
| `locks_broadcast` (violated) | the same on a relay, a worker for every task | the broadcast waits for a shard it has locked itself |
| `daemon` | 2 process ids, 3 commands or keys one after the other, one kill or interrupt, identity and PID file perhaps damaged, an interface that may lack the right to signal | until a signal is refused: no second engine, the PID file names the engine, `down` leaves neither, the interface ends up right; always: an engine's identity is the saved one, identity and PID file are replaced at once or not at all |
| `streams` | two tasks share a TCP connection, two devices dial each other over WebSocket, both ends have to answer over a connection they accepted; or two tasks share a WebSocket connection; or one device asks until the replies fill all buffers; one failure | locks and maps agree; a wire carries whole frames; a reader ends only when its connection has failed; ordered streams; no map stays locked; only a dialler that is silent or does not read stops an inbound loop |
| `rendezvous` | a device behind a NAT, another program on its preferred port; its NAT moves once; STUN may answer or not, and the host may know its address without it; one device that has been up for long | flag and address agree save between two stores; the DHT ends with the right port if the device ends up knowing it; the two find each other |

Configurations beside them show what the properties of these runs leave room for. Each
names one property that the code does not have, and TLC finds it violated in seconds:

| Configuration | Instance | Property violated |
|---|---|---|
| `NonceWindowEdge.cfg` (`NonceWindow`) | `replay_window` without strangers | `DuplicatesRefused`: a duplicate exactly `WIDTH` behind the top is accepted again |
| `HandshakeLostC.cfg` (`MCHandshake`) | one device knows the other; C may be lost | `EveryoneJoins`: the initiator has a session the responder never gets, and does not try again |
| `HandshakeRestart.cfg` (`MCHandshake`) | one device knows the other, one restart, no other fault | `LinksComeBack`: a peer takes message A of a restarted daemon for data of the old session, for good |
| `RelaySelfish.cfg` (`MCRelay`) | the second scene of `relay_links` | `NothingToSelf`: `b` records a path and a route to itself |
| `RelayUnfit.cfg` (`MCRelay`) | the chain of `relay_chain`; `r` is not publicly routable; one packet | `DeliveredAtDestination`: `r` confirms a path over `s` and keeps the packet |
| `PeersOverflow.cfg` (`MCPeers`) | one registration, a directory of two; channel of 2 | `EveryoneIsListed`: the directory overwrites the one Connected event |
| `PeersNamed.cfg` (`MCPeers`) | one registration, a directory that names the same peer | `LifecycleFollowed`: Connected goes back to Discovering |
| `DaemonTwoStarts.cfg` (`MCDaemon`) | 3 commands at any moment | `OneEngine`: `up` and the interface start an engine each |
| `DaemonForeign.cfg` (`MCDaemon`) | one command after the other, interface without the right to signal | `EngineIsNamed`: the interface removes the PID file of a daemon that runs on |
| `DaemonFirstStarts.cfg` (`MCDaemon`) | 3 commands at any moment | `IdentityIsSaved`: an engine uses an identity that is not the saved one |
| `DaemonSharedTmp.cfg` (`MCDaemon`) | the same | `ImplementsStateFiles`: one process renames what another has just truncated |
| `StreamsReplies.cfg` (`MCStreams`) | one device asks over a connection that lasts | `LastingDeliver`: the reply never reaches it |
| `RendezvousFiltered.cfg` (`MCRendezvous`) | a public host, STUN filtered, preferred port taken | `RegistryLeadsHere`: the DHT ends with another program's port |

Why the bounds are enough. The window is uniform in its width (and proved for
every width): 3 places have an inside, an edge and an outside. Handshakes
interfere only through entries for one address, and two attempts per device are
the least that can cross, be retried and be repeated; `handshake_one_sided` has a
third slot, so that a device may dial itself, be dialled and try again, and one
loss, since a second one only repeats the retry. The safety run takes states
as one that differ only in which ephemeral is which, or in which of the two devices,
which are told the same, is which. The relay runs keep the order of each link to
be short; `relay_links` has a hop limit of 1 instead of 8, because no way between
three nodes is longer, and begins its second scene with the loss used up. Three
nodes are the least with a relay, four the least with a relay that is not next to
both ends. A third peer
in `Peers` is the one that is only named, and a channel of one event overflows
whenever two are sent before the snapshot task runs. Two peers in one shard and one in
another give both kinds of wait; two workers are one fewer than the tasks that lock
on a node that does not relay, so that all of them can be blocked while a guard is
held over a send (with three they cannot). `MaxRounds = 2` lets a round meet the end of
the round before it. Two daemons are the least that can be one too many; three
commands are a start, a stop and a start, or a start from either side with a
stop between; twelve inodes are enough for every
name and every open file, as `DirAssumption` asks (more than two per file and one per
writer). What a hasty user does is not in the run but in the theorems, which
hold for any user. Streams
have channels of one place, so that every channel is full at times, and a
socket buffer of three halves of frames, so that a frame is written in parts, and
three questions are enough for the replies to fill them and stop a loop; three
connections are one for the TCP tasks to share and one per WebSocket dialler, or one
to share that is dialled again. In `Rendezvous` one
device is enough to have two announcing tasks and two receivers, and the other
is who must find it; a second move of the NAT would repeat the first.

Deadlock is not checked where a run can be over: all attempts connected and
nothing left to send, bounded rounds used up, everything registered.

Fairness. `Handshake`: each task keeps running, and datagrams in flight that are not
lost are received. The discovery loop dials every address it is told of in each of its
rounds, whatever else is under way; in the model a round may come when
every ephemeral is taken, or an attempt is under way that the real round, ten seconds
later, finds ended after two. So its fairness is strong. Nothing makes STUN answer. `Patient` adds
that a round trip is shorter than the two-second timeout, and the timeout than
the ten seconds between discoveries, for the liveness runs only; the safety run lets timeouts fall anywhere.
`Relay`: some task or link goes on while one can, which is less than fairness
to each; STUN answers or gives up, then the broadcast runs once. `Peers`: tasks and
snapshot task run. `SessionLocks`: weak
fairness per task; the locks need not be fair, because the rounds are bounded. No
worker is assumed to be free: `RoundsEndUnlessStarved` says what happens otherwise.
`Daemon`: processes go on and the interface polls; nothing is assumed of kills,
deadlines and, but for `Patient`, of the user. `Streams`: some task goes on while one
can; jobs are finite and so are runs, so this is fairness to each. `Rendezvous`:
on the devices that start, tasks and timers go on, and the inbound loop does not lose
to the STUN query every race for the first message of a handshake, which is sent again
and again (strong fairness). Nothing is assumed of STUN servers, of the
query's races, of trackers and of the first announcement.
All of it is what a tokio runtime with a free worker gives.

Findings, each a run that is violated:

1. *Crossing handshakes* (`inbound.rs:199`). Two devices that discover each other
   at once complete both handshakes and keep different ones, for good, without
   any loss. `README.md:9` of SeedNet promises that every device joins.
2. *Directory broadcast* (`lib.rs:567`). `get_mut` inside a loop over `iter()`:
   on a relay with two sessions the broadcast blocks its thread at its first tick, and
   heartbeat, outbound loop and handshakes follow when they need the shard. With the
   guard dropped before `get_mut`, the property holds.

Seen besides, with the configuration that shows it where there is one:

- *Restart* (`inbound.rs:198`, `HandshakeRestart.cfg`). Nothing removes the session of
  a peer that restarted with the same address, and the branch for sessions comes before
  the one that answers message A: it takes the new message A for data.
- *Message C* (`handshake.rs:93`, `HandshakeLostC.cfg`) is never repeated, so its loss
  leaves the initiator with a session the responder does not have
  (`handshake_one_sided` loses only A and B).
- *Edge of the window* (`noise.rs:61`, `NonceWindowEdge.cfg`). The nonce exactly `WIDTH`
  behind the top is accepted twice, because a shift by `WIDTH` clears the bitmap;
  `NoReplayInsideWindow` therefore stops one short of it, and the abstract filter
  promises nothing there.
- *Starvation* (`lib.rs:503-507`). A heartbeat whose send is pending has its shard locked
  and no worker; tasks that need the shard block the workers. The run `locks` reaches this.
- *Unfit relay* (`inbound.rs:694`, `RelayUnfit.cfg`). A relay that is not publicly
  routable confirms a path over the next one, then writes the packets to its own TUN
  device. Section 4 proves this to be the only way data strays.
- *Relays to themselves* (`outbound.rs:88-115`, `RelaySelfish.cfg`). Where `a` and `r` are
  linked, both dial `b`, and `r` and `b` are routable, the outbound
  loop of `a` may miss `b` while they shake hands, and take `b` itself as the relay: `b` gets a
  `RelayRequest` for `b`, and records a path and a route to itself. Section 4 proves
  that this is the only way to such a path.
- *Overflow* (`peers_snapshot.rs:47`, `PeersOverflow.cfg`). peers.json is written anew on
  Connected events only. One that is overwritten, as by the entries of a long directory, or sent
  before the snapshot task subscribes leaves its peer unlisted until the next one.
- *Named meanwhile* (`manager.rs:107`, `PeersNamed.cfg`). A directory that names a
  peer while it registers may replace its object by one that is Discovering.
- *Replies over TCP and WebSocket* (`tcp.rs:53, 106`, `ws.rs:65`, `StreamsReplies.cfg`).
  `read_loop` keeps the stream locked while it
  waits for a frame, so a reply on an accepted connection, and the inbound loop
  with it, waits until the dialler sends more; and nobody reads what comes back on
  a connection that was dialled, until the buffers are full and the inbound loop stops.
  `docs/en/guide/connect.md:74` offers both as fallbacks.
  `OnlyDiallersStopInbound` says that nothing worse happens.
- *Hasty user* (`DaemonTwoStarts.cfg`, `DaemonFirstStarts.cfg`, `DaemonSharedTmp.cfg`).
  `up` in another terminal, or after an interrupted one, starts a second daemon before the
  first has written its PID file; two first starts, or `seednet identity` during one,
  leave a daemon with an identity that is not the saved one; two writers share
  one temporary file, and one renames what the other has just truncated.
- *Refused signal* (`tui.rs:142`, `DaemonForeign.cfg`). The interface ignores that its signal
  was refused and removes the PID file of a daemon that runs on.
- *Announced port* (`lib.rs:486`, `RendezvousFiltered.cfg`). Without a public address and with
  the preferred port taken, the periodic announcement falls back to `port` instead of
  `bound_port` (the first one uses `bound_port`, line 278) and registers a port of another
  program; `dht/lib.rs:11` says the port the device listens on. Where STUN is filtered this
  lasts. Trackers are told the bound port, once.
- A failed TCP connection stays in the map and swallows what is sent
  (`tcp.rs:50`); a WebSocket one is dialled again once its writer has ended.
  `next_stream_port = try_port + 1` overflows at 65535 (`lib.rs:151`).
- A PID file that cannot be read, as a power failure may leave it, makes `up` and
  `down` fail until it is removed; the interface's start ignores it. `down`
  without a PID file ends the daemons of other state directories, but not those
  the interface has spawned, whose command line differs. peers.json of a killed
  daemon stays listed until the next one writes it. `down` sends SIGTERM, which the
  engine does not wait for.

## 4. Theorems

All hold for every value of the constants, from the assumptions named in the
modules (sets are disjoint from `None`, bounds are naturals, functions have their
domains).

| Module | Theorem | Says |
|---|---|---|
| `NonceWindowProofs` | `WindowInvariant`, `LateDatagramsAccepted`, `ReplaysRefused`, `WindowImplementsFilter` | for every width and any strangers' nonces: bitmap = history below the last place; late is accepted; repeats are refused; every step of the bitmap is a step of the filter |
| `HandshakeProofs` | `HandshakeInvariant`, `TransportsAreFresh`, `PendingEntriesAreOwned`, `SessionEndsMatch` | for any devices, addresses, losses, repeats, restarts: no transport is installed twice (so no nonce is used twice under a key), pending entries belong to live attempts, sessions of one attempt are of one handshake |
| | `UnderlaysAreIndexed` | if no two devices appear under one address (`SourcesDiffer`): `addr_index` leads from the address a session was made with to that session, save while who stored it is between the two inserts |
| | `SelfSessionsAreBlind` | if the own address a node is told of is the one STUN finds (`OwnAddressesFound`), whenever or never it answers: a session of a node with itself comes from an attempt spawned before STUN had answered |
| `RelayProofs` | `RelayInvariant`, `NextHopsAreNeighbours`, `RoutesLeadSomewhere` | for any topology, order, loss: next hops have sessions; a route has a session, a path, or a handshake about to finish |
| | `RelaysHaveNeighbours` | under the same conditions: the relay of a path has two sessions, so it answers requests and forwards |
| | `NothingLeadsToSelf` | under the same conditions: no path or route leads a node to itself, or to a peer through that peer, until an outbound loop asks the very peer it missed for a path to it |
| | `StrayData` | for any topology, order, loss: data that surfaces elsewhere than at its destination does so at a node with two sessions, none of them with the destination, and no relay flag |
| | `DataReachesDestination` | if at every moment every node with two sessions has its relay flag or a session with everyone (`[]HubsForward`): data surfaces only at its destination |
| `PeersProofs` | `PeersInvariant`, `RegistrationsConnect` | for any tasks and jobs: whoever is registered and not worked on is Connected, unless a directory names it too |
| `RendezvousProofs` | `RendezvousInvariant` | for any devices, hosts, NATs, ports: the relay flag agrees with the stored public address whenever no task is between its two stores, whichever tasks stored them |
| `SessionLocksProofs` | `GuardsAccountedFor`, `LockOrder` | for any map, tasks, workers: guards are the iterator's or a sending handshake's; without the broadcast nobody waits for a shard at or below one it holds |
| `StreamsProofs` | `StreamsInvariant`, `FramesStayWhole` | for any devices, connections, senders, capacities, failures: mutexes, maps, queues and tasks agree; a wire carries whole frames and at most one that the holder of the stream is at |
| | `ReadersGoOn`, `OrderedStreamsImplemented` | under the same conditions: a reader ends only when its connection has failed; messages arrive whole, once and in order, and only the last ones of a failed connection are lost |
| `DaemonProofs` | `AnyUserInvariant` | for any user: names lead to inodes of their own, the interface shows peers only of a daemon it believes in |
| | `DaemonInvariant` | for any user, any number of processes, commands, kills and interrupts: as long as every command was given in order and no signal refused (`Orderly`), one daemon at most is active, the PID file names it, each file has one writer |
| | `EnginesCollideInHaste`, `EnginesLostInHaste` | for any user: a second engine, or an engine the PID file does not name, exists only after a command in the middle of another start or stop, or a refused signal |
| | `DownHasStopped` | for any user: a `down` that was given in order, after others in order, leaves no engine and no PID file |
| | `IdentitiesAreSaved`, `StateFilesImplemented` | for a user who gives one command after the other and may signal every daemon (`Patient`, `~Foreign`): an engine's identity is the saved one; identity and PID file are replaced at once or not at all, whatever is killed between two system calls |

The inductive invariants, most of which the runs check too (`SelfInv`, `OnlyBlindMeetSelf` and
`AddressInv` are conjuncts the proofs add):

- `WindowInv`: `mask` is exactly the recorded nonces below `top`, offset by
  offset, with the last place excepted. Neither late acceptance nor refusal is
  inductive without it.
- `HandshakeInv`: tasks have the data of their step, messages B and C name the
  responder they belong to, pending and responder entries are those of live
  attempts whose keys nobody has installed, and sessions are filed under the
  owner of the other key. `TransportIsFresh` alone is not inductive: a key is
  drawn again once nothing refers to it, and the invariant says where it may
  still be.
- `RelayInv`: a half-finished handshake that is past its insert has its session,
  the next hop of a path has one, and a route has a session, a path, or a
  handshake that is about to finish. Sessions are never removed, which is what
  keeps it. A *hub* is a node with two sessions, which takes a request as one to
  relay; a node with one takes it as news of a path. So the rest is about hubs: the
  relay of a path is one (`RelaysAreHubs`); directories and confirmations come from
  one, a request has one at an end, data goes to its destination or to one
  (`MessagesProper`); and a node that has routes beyond its neighbours is one or has
  them for neighbours (`RoutesNeedHubs`), without which the request of a dropped route
  could be anyone's. Each part needs the others.
- `SelfInv`: `NothingToSelf`, and of what is under way: a confirmation names neither
  its sender nor its receiver, a request not its sender, and its receiver only if that
  is a hub. A node with one session that is asked for a path to itself
  would record it; relays do send requests back where they came from, but to hubs.
  The one sender without that guarantee is `DropRoute`, so the invariant is
  kept until that has happened (`used.selfish`).
- `PeersInv`: for each peer in the table that is not Connected, some task
  *drives* the object the table has now: it is about to fetch it, or holds it and
  its next transition is allowed. That a replaced object is of no matter is what
  makes the check-then-insert harmless between registrations.
- `RendezvousInv`: types, and flag and address; between the two stores of the
  first query the flag agrees with what the query has found instead.
- `LocksInv`: each guard is explained by its task's position, so that a waiting
  task's guards are known.
- `AddressInv`: while no two devices appear under one address, entries for an address
  are of attempts with whoever is there; a session no address leads to is one
  that a task at `stored`, or the loop in `IndexBack`, is about to index.
- `OnlyBlindMeetSelf`: an attempt with one node at both ends, wherever it has left its
  keys, is one of `blind`.
- `StreamsInv`: the queue of a mutex is exactly the tasks and handlers whose next
  step needs it, each once, and who is past it is its head. That the holder of a
  stream is unique is what `FramesAreWhole` needs: the one sender between header
  and body is the one whose header is the last item on the wire.
- `EndedHasFailed` is kept because a reader takes two items at a time off a wire
  of whole frames and so meets no garbage while the connection lasts.
  `ImplementsOrderedStreams` rests on the three: `WriteBody` on a connection that
  works and `Enqueue` are `Put`, `Push` is `Arrive`, `Forward` is `Pass`, `Receive` is
  `Take`, dialling is `Connect`, `Fail` and the end of a failed connection's reader
  are `Lose`; every other step moves messages inside one sequence or moves none.
- `DaemonInv` is `AnyUserInv` and, under `Orderly`, the rest: at most one daemon starts,
  runs or stops, and the PID file names it
  from the write on (`OneActive`); a command or the interface in the middle of a start
  or stop meets no other (`OneAtATime`); each write thread writes the inode its
  temporary name leads to and is the only one (`SoleWriter`, `WritersMatch`); the
  identity of who is past the load is on disk (`IdentityMatches`). None is
  inductive alone: the next writer is alone because the last one's process has
  ended, which is so because `down` waited.

Each step lemma takes one action; the temporal theorems combine `Init`, step and
consequence with PTL.

Only model-checked: everything under fairness (`EveryoneJoins`, `AttemptsEnd`,
`EveryoneReachable`, `ListedUnlessUnheard`, `RoundsEndUnlessStarved`, `ViewConverges`,
`PoolsFree`, `OnlyDiallersStopInbound`, `RegistryLeadsToInformed`, `EveryoneIsReached`),
since liveness and ENABLED are out of the prover's reach, and `IdentityIsSaved` and
`ImplementsStateFiles` where signals may be refused. `DeliveredAtDestination` of
`Relay` does not hold for every topology and is proved from a hypothesis about the states of
the run, `[]HubsForward`, which holds in every state of `relay_links`; what happens without
it is in section 3 (*Unfit relay*). None of the theorems is by induction over data.

The proofs about `Relay` go through the actions once for each thing a step may do: send
(`NewMessages`: every datagram after a step was under way before it, or is one that `Sends`
lists, with what the sender knew), learn paths (`PathSteps`: from which datagram), open
sessions (`SessionSteps`), miss a peer or deliver data (`MissSteps`). The invariants follow
from these four lemmas and types, without another look at the actions.

## 5. Not modelled

- Hole-punch probes (`handshake.rs:247-262`, `inbound.rs:57-85`), which change no map.
- How a peer is connected, directly or by relay, in peers.json.
- Noise, the cipher and key derivation (handshakes are pairs of keys; who does not
  have the keys cannot read), and the encoding of messages.
- The DHT beyond the last port of each device, the requests of trackers, how `local_public_ip`
  asks metadata services (`reqwest::blocking` inside a task), the list of tracker URLs.
- NATs that filter by sender. That `is_publicly_routable` says nothing of a NAT,
  so that a device behind one offers to relay, is in the model; what comes of it is not.
- Ports of the stream listeners; WSS, which the code refuses; accept errors.
- Process ids that are reused, daemons of another account, launchd, power failures
  after the start, logs.
- The TUN device, rendering and key handling of the interface, status and peers commands.
- `PunchCoordinator` and `RelayTable` of `nat`, `Router` and removal of routes, the
  allocation table, and the message channel with its session clock: the engine
  uses none of them; some have unit tests only.

## 6. Plan

1. `Relay` further: two-node cycles of paths in a ring, the number of directory
   messages in a cycle, peers that come back under a new address.
2. If the engine comes to use them: the message channel with expiry against
   heartbeats; both directions of the routing and allocation tables.
